---- MODULE Spec2Model ----
(***************************************************************************)
(* Verification model of the Tsugie data pipeline.                          *)
(*                                                                          *)
(* Part 1: the fusion engine (hanabi_crawler/fusion.py): raw-row loading,   *)
(* year filter, dedup grouping, field voting, coordinate resolution through *)
(* the geocoder, prefecture-centre fallback and overlap repair.             *)
(* Part 2: the content enrichment stage (scripts/enrich_event_content.py):  *)
(* source signature and the freshness cache.                                *)
(*                                                                          *)
(* Conventions.                                                             *)
(*  - A text is a sequence of characters; a character is a one-element      *)
(*    name such as "a", "7", " " or, for the Japanese characters the        *)
(*    source's regular expressions look for, a romanised name ("tou",       *)
(*    "kyou", "to" for the three characters of Tokyo-to, "ken" for the      *)
(*    prefecture suffix).                                                   *)
(*  - A JSON value is a record [t, s, n]: t = "none" (absent / null),       *)
(*    t = "str" with text s, t = "num" with number n.                       *)
(*  - Coordinates are integers in units of 1e-7 degree, so that rounding    *)
(*    to 6 decimals and the 1e-6 epsilon of the source are both visible.    *)
(***************************************************************************)
EXTENDS Integers, Sequences, FiniteSets, TLC

\* ------------------------------------------------------------------------
\* Values
\* ------------------------------------------------------------------------
NoneVal == [t |-> "none", s |-> <<>>, n |-> 0]
Str(x) == [t |-> "str", s |-> x, n |-> 0]
Num(k) == [t |-> "num", s |-> <<>>, n |-> k]
EmptyStr == Str(<<>>)

\* Sentinel for "no float" (Python None returned by _to_coord).
NoCoord == -1

Digits == <<"0", "1", "2", "3", "4", "5", "6", "7", "8", "9">>
IsDigit(c) == \E i \in 1..10 : Digits[i] = c
DigitVal(c) == (CHOOSE i \in 1..10 : Digits[i] = c) - 1

IsSpace(c) == c = " "

\* Number of fractional digits carried by a coordinate (unit 1e-7 degree).
CoordScale == 7

Pow10(k) == IF k = 0 THEN 1
            ELSE IF k = 1 THEN 10
            ELSE IF k = 2 THEN 100
            ELSE IF k = 3 THEN 1000
            ELSE IF k = 4 THEN 10000
            ELSE IF k = 5 THEN 100000
            ELSE IF k = 6 THEN 1000000
            ELSE 10000000

\* s without its leading whitespace.
StripLeft(s) ==
    LET ns == {i \in 1..Len(s) : ~IsSpace(s[i])}
    IN IF ns = {} THEN <<>>
       ELSE SubSeq(s, CHOOSE i \in ns : \A j \in ns : i <= j, Len(s))

\* re.sub(r"\s+", " ", s) on a text: of each run of whitespace the first
\* character stays, as a space.
CollapseWs(s) ==
    LET Keep(i) == ~IsSpace(s[i]) \/ i = 1 \/ ~IsSpace(s[i - 1])
        idx == SelectSeq([i \in 1..Len(s) |-> i], Keep)
    IN [k \in 1..Len(idx) |-> IF IsSpace(s[idx[k]]) THEN " " ELSE s[idx[k]]]

StripText(s) ==
    LET a == StripLeft(s)
    IN IF a # <<>> /\ IsSpace(a[Len(a)]) THEN SubSeq(a, 1, Len(a) - 1) ELSE a

\* _clean on a text: html.unescape is the identity on the model's alphabet
\* (no "&"); whitespace runs collapse to one space, then strip.
CleanText(s) == StripText(CollapseWs(s))

RECURSIVE DigitsToText(_)
NatToText(k) == IF k < 10 THEN <<Digits[k + 1]>> ELSE DigitsToText(k)
DigitsToText(k) == IF k < 10 THEN <<Digits[k + 1]>>
                   ELSE DigitsToText(k \div 10) \o <<Digits[(k % 10) + 1]>>

\* str(value): a number prints as its decimal text (only its emptiness and
\* its round trip through float() matter to the source).
StrOf(v) == IF v.t = "num" THEN NatToText(v.n) ELSE v.s

\* _clean(s): "" for None and for the empty string.
Clean(v) == IF v.t = "none" THEN <<>>
            ELSE IF v.t = "num" THEN StrOf(v)
            ELSE CleanText(v.s)

\* ------------------------------------------------------------------------
\* fusion.py: scoring, coordinates
\* ------------------------------------------------------------------------
RECURSIVE TextToNat(_)
TextToNat(s) == IF s = <<>> THEN 0
                ELSE TextToNat(SubSeq(s, 1, Len(s) - 1)) * 10 + DigitVal(s[Len(s)])

\* float(s) for the unsigned decimal literals of the model's alphabet
\* (digits with at most one "." and at most CoordScale fractional digits);
\* every other text raises ValueError, reported here as NoCoord.
ParseFloat(s) ==
    LET dots == {i \in 1..Len(s) : s[i] = "."}
        d == IF dots = {} THEN Len(s) + 1 ELSE CHOOSE i \in dots : TRUE
        ip == SubSeq(s, 1, d - 1)
        fp == SubSeq(s, d + 1, Len(s))
    IN IF /\ Cardinality(dots) <= 1
          /\ \A i \in 1..Len(s) : i \in dots \/ IsDigit(s[i])
          /\ Len(ip) + Len(fp) > 0
          /\ Len(fp) <= CoordScale
       THEN TextToNat(ip) * Pow10(CoordScale) + TextToNat(fp) * Pow10(CoordScale - Len(fp))
       ELSE NoCoord

\* _to_coord(value)
ToCoord(v) ==
    IF v.t = "none" THEN NoCoord
    ELSE IF v.t = "num" THEN v.n
    ELSE LET s == CleanText(v.s)
         IN IF s = <<>> THEN NoCoord ELSE ParseFloat(s)

\* The site-weight table of _score_value and _site_weight.
site_weight(source_site) ==
    IF source_site = "hanabi_cloud" THEN 8
    ELSE IF source_site = "jorudan" THEN 6
    ELSE IF source_site \in {"sorahanabi", "weathernews", "hanabeat", "hanabi_navi"} THEN 4
    ELSE IF source_site = "jalan" THEN 3
    ELSE IF source_site = "hanabeam" THEN 2
    ELSE 1

\* The placeholder tokens of _score_value: "--", "---" and three Japanese
\* words (mitei, hikouhyou, chousachuu), each written with one name per
\* character.
PlaceholderTokens == {
    <<"-", "-">>,
    <<"-", "-", "-">>,
    <<"mi", "tei">>,
    <<"hi", "kou", "hyou">>,
    <<"chou", "sa", "chuu">>}

Min(a, b) == IF a < b THEN a ELSE b
Max(a, b) == IF a > b THEN a ELSE b

\* _score_value(field, value, source_site)
_score_value(field, value, source_site) ==
    IF value.t = "none" THEN 0
    ELSE LET val == CleanText(StrOf(value))
             base == Min(Len(val), 200)
             w == site_weight(source_site)
         IN IF val = <<>> THEN 0
            ELSE IF val \in PlaceholderTokens THEN 1
            ELSE IF field = "event_name" THEN w * 10 + Max(0, 80 - base)
            ELSE IF field \in {"lat", "lng"} THEN w * 100 + 100
            ELSE w * 10 + base

\* ------------------------------------------------------------------------
\* fusion.py: year, date, prefecture and name extraction
\* ------------------------------------------------------------------------
\* Smallest element of a set of positions, 0 when there is none
\* (re.search returns the leftmost match).
FirstIdx(S) == IF S = {} THEN 0 ELSE CHOOSE i \in S : \A j \in S : i <= j

\* (20\d{2}) at position i
MatchYearAt(s, i) ==
    /\ i + 3 <= Len(s)
    /\ s[i] = "2" /\ s[i + 1] = "0"
    /\ IsDigit(s[i + 2]) /\ IsDigit(s[i + 3])

\* (20\d{2})-(\d{2})-(\d{2}) at position i
MatchIsoDateAt(s, i) ==
    /\ MatchYearAt(s, i)
    /\ i + 9 <= Len(s)
    /\ s[i + 4] = "-" /\ IsDigit(s[i + 5]) /\ IsDigit(s[i + 6])
    /\ s[i + 7] = "-" /\ IsDigit(s[i + 8]) /\ IsDigit(s[i + 9])

\* (20\d{2})<nen>(\d{1,2})<gatsu>(\d{1,2})<nichi> at position i, with m
\* month digits and d day digits.
MatchKanjiDateAt(s, i, m, d) ==
    /\ MatchYearAt(s, i)
    /\ i + 6 + m + d <= Len(s)
    /\ s[i + 4] = "nen"
    /\ \A k \in 1..m : IsDigit(s[i + 4 + k])
    /\ s[i + 5 + m] = "gatsu"
    /\ \A k \in 1..d : IsDigit(s[i + 5 + m + k])
    /\ s[i + 6 + m + d] = "nichi"

\* f"{int(x):02d}" for a one- or two-digit text
Pad2(x) == LET k == TextToNat(x) IN IF k < 10 THEN <<"0">> \o NatToText(k) ELSE NatToText(k)

\* _extract_date_token(text)
_extract_date_token(v) ==
    LET s == Clean(v)
        iso == FirstIdx({i \in 1..Len(s) : MatchIsoDateAt(s, i)})
        kj == FirstIdx({i \in 1..Len(s) : \E m \in 1..2, d \in 1..2 : MatchKanjiDateAt(s, i, m, d)})
    IN IF s = <<>> THEN <<>>
       ELSE IF iso # 0 THEN SubSeq(s, iso, iso + 9)
       ELSE IF kj # 0
            THEN LET m == CHOOSE m \in 1..2 : \E d \in 1..2 : MatchKanjiDateAt(s, kj, m, d)
                     d == CHOOSE d \in 1..2 : MatchKanjiDateAt(s, kj, m, d)
                 IN SubSeq(s, kj, kj + 3) \o <<"-">> \o Pad2(SubSeq(s, kj + 5, kj + 4 + m))
                    \o <<"-">> \o Pad2(SubSeq(s, kj + 6 + m, kj + 5 + m + d))
       ELSE <<>>

\* _extract_year_token(text)
_extract_year_token(v) ==
    LET s == Clean(v)
        iso == FirstIdx({i \in 1..Len(s) : MatchIsoDateAt(s, i)})
        nen == FirstIdx({i \in 1..Len(s) : MatchYearAt(s, i) /\ i + 4 <= Len(s) /\ s[i + 4] = "nen"})
        bare == FirstIdx({i \in 1..Len(s) : MatchYearAt(s, i)})
    IN IF s = <<>> THEN <<>>
       ELSE IF iso # 0 THEN SubSeq(s, iso, iso + 3)
       ELSE IF nen # 0 THEN SubSeq(s, nen, nen + 3)
       ELSE IF bare # 0 THEN SubSeq(s, bare, bare + 3)
       ELSE <<>>

\* The four literal alternatives of the prefecture pattern: Hokkaido,
\* Tokyo-to, Kyoto-fu, Osaka-fu.
PrefLiterals == <<
    <<"hoku", "kai", "dou">>,
    <<"tou", "kyou", "to">>,
    <<"kyou", "to", "fu">>,
    <<"oo", "saka", "fu">>>>

\* Length of the match of (Hokkaido|Tokyo-to|Kyoto-fu|Osaka-fu|.{2,3}<ken>)
\* at position i, 0 when it does not match there: alternatives in order,
\* the greedy .{2,3} tries three characters first.
PrefMatchLenAt(s, i) ==
    IF \E k \in 1..4 : i + 2 <= Len(s) /\ SubSeq(s, i, i + 2) = PrefLiterals[k] THEN 3
    ELSE IF i + 3 <= Len(s) /\ s[i + 3] = "ken" THEN 4
    ELSE IF i + 2 <= Len(s) /\ s[i + 2] = "ken" THEN 3
    ELSE 0

PrefMatchIdx(s) == FirstIdx({i \in 1..Len(s) : PrefMatchLenAt(s, i) > 0})

\* _extract_pref(text)
_extract_pref(v) ==
    LET s == Clean(v)
        i == PrefMatchIdx(s)
    IN IF s = <<>> \/ i = 0 THEN <<>> ELSE SubSeq(s, i, i + PrefMatchLenAt(s, i) - 1)

\* Python truthiness of a row value, and "a or b or c".
Truthy(v) == (v.t = "str" /\ v.s # <<>>) \/ (v.t = "num" /\ v.n # 0)
Or3(a, b, c) == IF Truthy(a) THEN a ELSE IF Truthy(b) THEN b ELSE c

\* str.lower() on the model's alphabet.
Lower(c) == IF c = "A" THEN "a" ELSE IF c = "B" THEN "b" ELSE c

RECURSIVE PunctToSpace(_)
\* re.sub(r"[...\-_\s]+", " ", s): every run of hyphen, underscore or
\* whitespace becomes one space.
PunctToSpace(s) ==
    IF s = <<>> THEN <<>>
    ELSE IF Head(s) \in {"-", "_", " "}
         THEN IF Len(s) > 1 /\ s[2] \in {"-", "_", " "}
              THEN PunctToSpace(Tail(s))
              ELSE <<" ">> \o PunctToSpace(Tail(s))
         ELSE <<Head(s)>> \o PunctToSpace(Tail(s))

\* _normalize_name_raw(name).  Of the nine strip patterns only the last
\* (a prefecture and everything after it) can match a text of the model's
\* alphabet; the others need brackets or kana the alphabet does not hold.
_normalize_name_raw(v) ==
    LET s == Clean(v)
        i == PrefMatchIdx(s)
        cut == IF i = 0 THEN s ELSE SubSeq(s, 1, i - 1)
        t == CleanText(PunctToSpace(cut))
    IN IF s = <<>> THEN <<>> ELSE [k \in 1..Len(t) |-> Lower(t[k])]

\* ------------------------------------------------------------------------
\* fusion.py: geocode query lists
\* ------------------------------------------------------------------------
\* _normalize_event_name_for_geocode(text).  The bracket and kana patterns
\* need characters outside the model's alphabet; the pattern that cuts the
\* tail after a hyphen is modelled.
_normalize_event_name_for_geocode(v) ==
    LET s == Clean(v)
        i == FirstIdx({k \in 1..Len(s) : s[k] = "-"})
    IN IF s = <<>> THEN <<>>
       ELSE IF i = 0 THEN s
       ELSE CleanText(SubSeq(s, 1, i - 1) \o <<" ">>)

\* A strategy name is the sequence of its underscore-separated parts that
\* matter to the source's test '"event_name" in strategy'.
HasEventName(strategy) == \E i \in 1..Len(strategy) : strategy[i] = "event_name"

RECURSIVE DedupQueries(_, _)
\* The closing loop of both query builders: clean, drop texts shorter than
\* four characters, drop repeats, keep order.
DedupQueries(queries, seen) ==
    IF queries = <<>> THEN <<>>
    ELSE LET q == CleanText(Head(queries).q)
         IN IF q = <<>> \/ Len(q) < 4 \/ q \in seen
            THEN DedupQueries(Tail(queries), seen)
            ELSE <<[q |-> q, strategy |-> Head(queries).strategy]>>
                 \o DedupQueries(Tail(queries), seen \cup {q})

Opt(cond, q, strategy) == IF cond THEN <<[q |-> q, strategy |-> strategy]>> ELSE <<>>

\* _build_geocode_queries(row)
_build_geocode_queries(row) ==
    LET venue_address == Clean(row["venue_address"])
        prefecture == Clean(row["prefecture"])
        city == Clean(row["city"])
        venue_name == Clean(row["venue_name"])
        event_name == Clean(row["event_name"])
        event_name_norm == _normalize_event_name_for_geocode(Str(event_name))
    IN DedupQueries(
           Opt(venue_address # <<>>, venue_address, <<"venue_address">>)
        \o Opt(prefecture # <<>> \/ city # <<>> \/ venue_name # <<>>,
               prefecture \o city \o venue_name, <<"pref", "city", "venue">>)
        \o Opt(prefecture # <<>> /\ venue_name # <<>>,
               prefecture \o venue_name, <<"pref", "venue">>)
        \o Opt(city # <<>> /\ venue_name # <<>>, city \o venue_name, <<"city", "venue">>)
        \o Opt(venue_name # <<>>, venue_name, <<"venue_name">>)
        \o Opt(prefecture # <<>> /\ event_name # <<>>,
               prefecture \o event_name, <<"pref", "event_name">>)
        \o Opt(event_name_norm # <<>> /\ prefecture # <<>>,
               prefecture \o event_name_norm, <<"pref", "event_name", "normalized">>)
        \o Opt(event_name_norm # <<>>, event_name_norm, <<"event_name", "normalized">>)
        \o Opt(event_name # <<>>, event_name, <<"event_name">>),
        {})

\* _build_overlap_repair_queries(row)
_build_overlap_repair_queries(row) ==
    LET prefecture == Clean(row["prefecture"])
        city == Clean(row["city"])
        venue_name == Clean(row["venue_name"])
        venue_address == Clean(row["venue_address"])
        event_name == Clean(row["event_name"])
        event_name_norm == _normalize_event_name_for_geocode(Str(event_name))
    IN DedupQueries(
           Opt(prefecture # <<>> \/ city # <<>> \/ venue_name # <<>> \/ venue_address # <<>>,
               prefecture \o city \o venue_name \o venue_address,
               <<"repair", "pref", "city", "venue", "address">>)
        \o Opt(prefecture # <<>> /\ city # <<>> /\ event_name_norm # <<>>,
               prefecture \o city \o event_name_norm,
               <<"repair", "pref", "city", "event_name", "normalized">>)
        \o Opt(prefecture # <<>> /\ event_name_norm # <<>> /\ venue_name # <<>>,
               prefecture \o event_name_norm \o venue_name,
               <<"repair", "pref", "event_name", "venue">>)
        \o Opt(prefecture # <<>> /\ event_name # <<>>,
               prefecture \o event_name, <<"repair", "pref", "event_name", "raw">>)
        \o Opt(event_name_norm # <<>> /\ venue_name # <<>>,
               event_name_norm \o venue_name, <<"repair", "event_name", "venue">>)
        \o Opt(venue_address # <<>> /\ event_name_norm # <<>>,
               venue_address \o event_name_norm,
               <<"repair", "venue", "address", "event_name">>)
        \o Opt(venue_address # <<>>, venue_address, <<"repair", "venue", "address", "only">>)
        \o Opt(prefecture # <<>> /\ venue_name # <<>>,
               prefecture \o venue_name, <<"repair", "pref", "venue">>)
        \o Opt(event_name_norm # <<>>, event_name_norm,
               <<"repair", "event_name", "normalized">>)
        \o Opt(event_name # <<>>, event_name, <<"repair", "event_name", "raw">>),
        {})

\* ------------------------------------------------------------------------
\* fusion.py: geo_source values, prefecture centres
\* ------------------------------------------------------------------------
\* A geo_source is the sequence of the parts the source concatenates:
\* <<"network_geocode", "_title", "_cache">> is network_geocode_title_cache.
GS(x) == <<x>>
LOW_CONFIDENCE_GEO_SOURCES == {GS("missing"), GS("pref_center_fallback")}

\* _is_low_confidence_geo_source(source): empty, in the low-confidence set,
\* or starting with "network_geocode".
_is_low_confidence_geo_source(source) ==
    \/ source = <<>>
    \/ source \in LOW_CONFIDENCE_GEO_SOURCES
    \/ Head(source) = "network_geocode"

\* 1e-6 degree in coordinate units.
COORD_EPSILON == 10

\* round(x, 6) of a coordinate: to the nearest multiple of 1e-6 degree.
\* The model's coordinates never lie exactly halfway.
Round6(x) == ((x + 5) \div 10) * 10

Abs(x) == IF x < 0 THEN -x ELSE x

TokyoTo == <<"tou", "kyou", "to">>
ChibaKen == <<"chi", "ba", "ken">>

\* PREFECTURE_CENTER, two of its 47 rows: Tokyo (35.68944, 139.69167) and
\* Chiba (35.60472, 140.12333).
PrefectureCenterKeys == {TokyoTo, ChibaKen}
PREFECTURE_CENTER(pref) ==
    IF pref = TokyoTo THEN <<356894400, 1396916700>> ELSE <<356047200, 1401233300>>

\* _resolve_prefecture_center(row): <<>> stands for None.
_resolve_prefecture_center(row) ==
    LET p0 == Clean(row["prefecture"])
        pref == IF p0 = <<>>
                THEN _extract_pref(Or3(row["venue_address"], row["venue_name"], row["event_name"]))
                ELSE p0
    IN IF pref \in PrefectureCenterKeys THEN PREFECTURE_CENTER(pref) ELSE <<>>

\* ------------------------------------------------------------------------
\* fusion.py: rows, dedup key, voting
\* ------------------------------------------------------------------------
\* A raw row carries the keys the fusion engine reads.  The annotation keys
\* (_event_year, ...) are None until fuse_records sets them.
MkRow(url, name, date, addr, pref, lat, lng) ==
    [source_site |-> NoneVal, source_url |-> url, event_name |-> name,
     event_date_start |-> date, venue_name |-> NoneVal, venue_address |-> addr,
     prefecture |-> pref, city |-> NoneVal, lat |-> lat, lng |-> lng,
     _event_year |-> NoneVal, _name_norm_raw |-> NoneVal,
     _name_norm_canonical |-> NoneVal, _alias_applied |-> NoneVal]

\* The alias map of the run (_load_alias_map): one alias, "wxyz" -> "abcd".
AliasFrom == <<"w", "x", "y", "z">>
AliasTo == <<"a", "b", "c", "d">>
alias_map_get(raw) == IF raw = AliasFrom THEN AliasTo ELSE raw

\* _extract_event_year(row)
_extract_event_year(row) ==
    LET a == _extract_year_token(row["event_date_start"])
        b == _extract_year_token(row["event_name"])
        c == _extract_year_token(row["source_url"])
    IN IF a # <<>> THEN a ELSE IF b # <<>> THEN b ELSE c

\* Lines 660-665 of fuse_records: the per-row annotations.
Annotate(row) ==
    LET raw == _normalize_name_raw(row["event_name"])
        canonical == alias_map_get(raw)
    IN [row EXCEPT !["_event_year"] = Str(_extract_event_year(row)),
                   !["_name_norm_raw"] = Str(raw),
                   !["_name_norm_canonical"] = Str(canonical),
                   !["_alias_applied"] = Str(IF canonical # raw THEN <<"1">> ELSE <<"0">>)]

Bar == <<"|">>
UnknownText == <<"u", "n", "k", "n", "o", "w", "n">>

\* _dedup_key(row)
_dedup_key(row) ==
    LET name == row["_name_norm_canonical"].s
        date == _extract_date_token(row["event_date_start"])
        year == row["_event_year"].s
        pref == _extract_pref(Or3(row["venue_address"], row["venue_name"], row["event_name"]))
    IN IF name # <<>> /\ date # <<>> /\ year # <<>>
       THEN name \o Bar \o year \o Bar \o date \o Bar \o pref
       ELSE IF name # <<>> /\ year # <<>> THEN name \o Bar \o year \o Bar \o pref
       ELSE IF name # <<>> THEN name \o Bar \o UnknownText \o Bar \o pref
       ELSE <<"u", "r", "l">> \o Bar \o (IF year # <<>> THEN year ELSE UnknownText)
            \o Bar \o StrOf(row["source_url"])

\* Position of key in the insertion-ordered group list, 0 when absent.
GroupIdx(groups, key) == FirstIdx({i \in 1..Len(groups) : groups[i].key = key})

RECURSIVE GroupRowsNewestFirst(_, _)
\* A variant of the grouping that puts a new key in front of the others.
GroupRowsNewestFirst(rs, groups) ==
    IF rs = <<>> THEN groups
    ELSE LET key == _dedup_key(Head(rs))
             i == GroupIdx(groups, key)
         IN IF i = 0
            THEN GroupRowsNewestFirst(Tail(rs),
                                      <<[key |-> key, members |-> <<Head(rs)>>]>> \o groups)
            ELSE GroupRowsNewestFirst(Tail(rs),
                                      [groups EXCEPT ![i].members =
                                          Append(groups[i].members, Head(rs))])

RECURSIVE GroupRows(_, _)
\* Lines 674-676: groups[_dedup_key(row)].append(row) over the rows in
\* order; a dict keeps its keys in order of first insertion.
GroupRows(rs, groups) ==
    IF rs = <<>> THEN groups
    ELSE LET key == _dedup_key(Head(rs))
             i == GroupIdx(groups, key)
         IN IF i = 0
            THEN GroupRows(Tail(rs), Append(groups, [key |-> key, members |-> <<Head(rs)>>]))
            ELSE GroupRows(Tail(rs),
                           [groups EXCEPT ![i].members = Append(groups[i].members, Head(rs))])

\* The voted fields: eight of the twenty of all_fields; the other twelve
\* are free-text fields voted exactly like venue_address.
all_fields == <<"event_name", "event_date_start", "venue_name", "venue_address",
                "prefecture", "city", "lat", "lng">>

\* m.get("source_site", ""): a site id is a one-part text.
StrOfSite(m) == IF m["source_site"].s = <<>> THEN "" ELSE Head(m["source_site"].s)

RECURSIVE VoteLoopLastWins(_, _, _, _)
\* A variant of the member loop in which a later member also wins a tie.
VoteLoopLastWins(field, members, best_val, best_score) ==
    IF members = <<>> THEN best_val
    ELSE LET m == Head(members)
             score == _score_value(field, m[field], StrOfSite(m))
         IN IF score >= best_score
            THEN VoteLoopLastWins(field, Tail(members), m[field], score)
            ELSE VoteLoopLastWins(field, Tail(members), best_val, best_score)

RECURSIVE VoteLoop(_, _, _, _)
\* Lines 739-746: the member loop for one field; a later member replaces
\* the best only with a strictly higher score.
VoteLoop(field, members, best_val, best_score) ==
    IF members = <<>> THEN best_val
    ELSE LET m == Head(members)
             score == _score_value(field, m[field], StrOfSite(m))
         IN IF score > best_score
            THEN VoteLoop(field, Tail(members), m[field], score)
            ELSE VoteLoop(field, Tail(members), best_val, best_score)

Vote(field, members) == VoteLoop(field, members, NoneVal, -1)

\* f"E{idx:06d}"
RECURSIVE ZeroPad(_, _)
ZeroPad(t, width) == IF Len(t) >= width THEN t ELSE ZeroPad(<<"0">> \o t, width)
CanonicalId(idx) == <<"E">> \o ZeroPad(NatToText(idx), 6)

\* Lines 725-746: the merged row of group idx before coordinate resolution.
MergedBase(idx, g) ==
    [canonical_id |-> CanonicalId(idx),
     dedup_key |-> g.key,
     geo_source |-> <<>>,
     source_sites |-> {m["source_site"].s : m \in {g.members[i] : i \in 1..Len(g.members)}} \ {<<>>},
     source_urls |-> {StrOf(m["source_url"]) : m \in {g.members[i] : i \in 1..Len(g.members)}} \ {<<>>},
     source_count |-> Len(g.members),
     event_name |-> Vote("event_name", g.members),
     event_date_start |-> Vote("event_date_start", g.members),
     venue_name |-> Vote("venue_name", g.members),
     venue_address |-> Vote("venue_address", g.members),
     prefecture |-> Vote("prefecture", g.members),
     city |-> Vote("city", g.members),
     lat |-> Vote("lat", g.members),
     lng |-> Vote("lng", g.members)]

\* ------------------------------------------------------------------------
\* State
\* ------------------------------------------------------------------------
VARIABLES
    files,                   \* raw store: site id -> "missing" or its lines
    geocode_enabled,         \* fuse_records argument
    pc,                      \* position of the fusion run
    rows,                    \* rows of fuse_records
    groups,                  \* groups, in insertion order
    gi,                      \* idx of the group being fused (enumerate from 1)
    merged,                  \* merged row waiting for the geocoder
    queries,                 \* geocode queries not yet submitted
    fused_rows,
    geocode_entries,
    dedup_entries,
    suspicious,              \* overlap repair: members still to visit
    rqueries,                \* overlap repair: queries not yet submitted
    overlap_repair_entries,
    before_repair,           \* overlap repair: the fused rows it was handed
    vote_pc,                 \* field voting on its own: position
    vote_field,
    vote_members,
    vote_result,
    content_pc,              \* content stage: position in one pass of the event loop
    args,                    \* content stage: command-line arguments
    row_source_urls,         \* source_urls of the fused row
    source_urls,             \* parse_source_urls(row)
    sig,                     \* source_signature(source_urls)
    old,                     \* resolve_previous_record(row, previous)
    record,                  \* the record handed to persist_record
    http,                    \* requests made for the event, by kind
    stage,                   \* stage run: which stage's main is running
    stage_pc,                \* stage run: position in main
    cfg,                     \* stage run: arguments and what is on disk at the start
    stage_rows,              \* rows (content) or items (score), in processing order
    row_i,                   \* index of the next row to process or write
    out_rows,                \* score stage: out_rows
    run_dirs,                \* run id -> state of that run's directory
    latest_run,              \* the stage's run id in latest_run.json
    created,                 \* directories and files created or written by this run
    raised,                  \* the exception main ended with, if any
    export_pc,               \* export: position in main
    export_in,               \* export: the frozen fused rows and the key
    invocation,              \* export: 1 or 2, which invocation is running
    export_entries,          \* export: entries
    images_bin,              \* export: image_payload
    payload_bin,             \* export: payload
    bucket_meta,             \* export: bucket_meta
    exported,                \* export: the files written by each invocation
    geo_pc,                  \* geohash of one entry: position in build_entry
    geo_row,                 \* geohash: lat and lng of the fused row, in micro-degrees
    geo_precision,           \* geohash: geohash_precision
    geo_coord,               \* geohash: parse_coordinate(row)
    geo_hash,                \* geohash: the geohash of the entry
    net_stage,               \* requests of a stage run: the stage (content or score)
    net_pc,                  \* requests: position in the event loop
    net_cfg,                 \* requests: arguments of the run
    clock,                   \* requests: time.monotonic(), in ticks of half a second
    next_at,                 \* requests: RateLimiter._next_at
    requests,                \* requests: the outbound HTTP requests made so far
    events_left,             \* requests: rows the loop has not taken yet
    fetch,                   \* requests: locals of the URL loop and of fetch_page_with_retries
    fetched,                 \* requests: what fetch_page_with_retries returned, per selected URL
    ev,                      \* requests: the best extract of the event and what is left to do for it
    codex_pc,                \* codex call: position in CodexTextPolisher._call
    codex_model,             \* codex call: self.model
    codex_try,               \* codex call: models_to_try, the loop indices and last_error
    codex_file,              \* codex call: text of the --output-last-message file (0: empty)
    codex_runs,              \* codex call: the subprocess runs made so far
    codex_result,            \* codex call: what _call returned or raised
    score_pc,                \* score loop: position in main
    score_cfg,               \* score loop: arguments and whether an analyzer was built
    score_fused,             \* score loop: fused_rows
    score_prev,              \* score loop: rows of earlier score runs, in load order
    loop_items,              \* score loop: items
    item_i,                  \* score loop: index of the next item
    score_out,               \* score loop: out_rows
    api_calls,               \* score loop: api_calls
    limiter_waits,           \* score loop: the items limiter.wait() was called for
    img_pc,                  \* images: position (download, record, build_entry, pack)
    img_cfg,                 \* images: --download-images and --max-images
    img_urls,                \* images: image_urls of the best page
    img_idx,                 \* images: idx of the download loop
    downloaded,              \* images: downloaded
    img_record,              \* images: the content record
    img_entry                \* images: the export entry

fvars == <<files, geocode_enabled, pc, rows, groups, gi, merged, queries, fused_rows,
           geocode_entries, dedup_entries, suspicious, rqueries, overlap_repair_entries,
           before_repair>>

vvars == <<vote_pc, vote_field, vote_members, vote_result>>

cvars == <<content_pc, args, row_source_urls, source_urls, sig, old, record, http>>

svars == <<stage, stage_pc, cfg, stage_rows, row_i, out_rows, run_dirs, latest_run,
           created, raised>>

xvars == <<export_pc, export_in, invocation, export_entries, images_bin, payload_bin,
           bucket_meta, exported>>

gvars == <<geo_pc, geo_row, geo_precision, geo_coord, geo_hash>>

nvars == <<net_stage, net_pc, net_cfg, clock, next_at, requests, events_left, fetch, fetched, ev>>

kvars == <<codex_pc, codex_model, codex_try, codex_file, codex_runs, codex_result>>

qvars == <<score_pc, score_cfg, score_fused, score_prev, loop_items, item_i, score_out, api_calls, limiter_waits>>

ivars == <<img_pc, img_cfg, img_urls, img_idx, downloaded, img_record, img_entry>>

vars == <<fvars, vvars, cvars, svars, xvars, gvars, nvars, kvars, qvars, ivars>>

\* What a fusion run, the voting of a field, a pass of the content loop and
\* a stage run leave alone.
NotFusion == <<vvars, cvars, svars, xvars, gvars, nvars, kvars, qvars, ivars>>
NotVote == <<fvars, cvars, svars, xvars, gvars, nvars, kvars, qvars, ivars>>
NotContent == <<fvars, vvars, svars, xvars, gvars, nvars, kvars, qvars, ivars>>
NotStage == <<fvars, vvars, cvars, xvars, gvars, nvars, kvars, qvars, ivars>>
NotExport == <<fvars, vvars, cvars, svars, gvars, nvars, kvars, qvars, ivars>>
NotGeohash == <<fvars, vvars, cvars, svars, xvars, nvars, kvars, qvars, ivars>>
NotNetwork == <<fvars, vvars, cvars, svars, xvars, gvars, kvars, qvars, ivars>>
NotCodex == <<fvars, vvars, cvars, svars, xvars, gvars, nvars, qvars, ivars>>
NotScore == <<fvars, vvars, cvars, svars, xvars, gvars, nvars, kvars, ivars>>
NotImages == <<fvars, vvars, cvars, svars, xvars, gvars, nvars, kvars, qvars>>

\* The stages that are not running.
VoteIdle ==
    /\ vote_pc = "off"
    /\ vote_field = "event_name"
    /\ vote_members = <<>>
    /\ vote_result = <<>>

ContentIdle ==
    /\ content_pc = "off"
    /\ args = <<>>
    /\ row_source_urls = <<>>
    /\ source_urls = <<>>
    /\ sig = <<>>
    /\ old = <<>>
    /\ record = <<>>
    /\ http = <<>>

StageIdle ==
    /\ stage = "off"
    /\ stage_pc = "off"
    /\ cfg = <<>>
    /\ stage_rows = <<>>
    /\ row_i = 1
    /\ out_rows = <<>>
    /\ run_dirs = <<>>
    /\ latest_run = ""
    /\ created = {}
    /\ raised = ""

ExportIdle ==
    /\ export_pc = "off"
    /\ export_in = <<>>
    /\ invocation = 1
    /\ export_entries = <<>>
    /\ images_bin = <<>>
    /\ payload_bin = <<>>
    /\ bucket_meta = <<>>
    /\ exported = <<>>

GeohashIdle ==
    /\ geo_pc = "off"
    /\ geo_row = <<>>
    /\ geo_precision = 0
    /\ geo_coord = <<>>
    /\ geo_hash = <<>>

NetworkIdle ==
    /\ net_stage = "off"
    /\ net_pc = "off"
    /\ net_cfg = <<>>
    /\ clock = 0
    /\ next_at = 0
    /\ requests = <<>>
    /\ events_left = 0
    /\ fetch = <<>>
    /\ fetched = <<>>
    /\ ev = <<>>

CodexIdle ==
    /\ codex_pc = "off"
    /\ codex_model = ""
    /\ codex_try = <<>>
    /\ codex_file = 0
    /\ codex_runs = <<>>
    /\ codex_result = <<>>

ScoreIdle ==
    /\ score_pc = "off"
    /\ score_cfg = <<>>
    /\ score_fused = <<>>
    /\ score_prev = <<>>
    /\ loop_items = <<>>
    /\ item_i = 1
    /\ score_out = <<>>
    /\ api_calls = 0
    /\ limiter_waits = <<>>

ImagesIdle ==
    /\ img_pc = "off"
    /\ img_cfg = <<>>
    /\ img_urls = <<>>
    /\ img_idx = 1
    /\ downloaded = <<>>
    /\ img_record = <<>>
    /\ img_entry = <<>>

\* ------------------------------------------------------------------------
\* Inputs of the fusion run
\* ------------------------------------------------------------------------
\* site_ids argument of fuse_records, in order.
site_ids == <<"hanabi_cloud", "jalan">>

\* target_year = 2026 with strict_year on.
target_year_str == <<"2", "0", "2", "6">>

T(x) == Str(x)
Url1 == T(<<"u", "1">>)
Url2 == T(<<"u", "2">>)
NameAbcd == T(<<"a", "b", "c", "d">>)
NameWxyz == T(<<"w", "x", "y", "z">>)
Date2026 == T(<<"2", "0", "2", "6", "-", "0", "8", "-", "0", "1">>)
Date2025 == T(<<"2", "0", "2", "5", "-", "0", "8", "-", "0", "1">>)
TokyoAddr == T(TokyoTo \o <<"x", "y">>)
TokyoPref == T(TokyoTo)
JunkCoord == T(<<"x">>)
\* "35.68944": the latitude of the Tokyo centre, as a site would print it.
LatText == T(<<"3", "5", ".", "6", "8", "9", "4", "4">>)
\* "139.69167"
LngText == T(<<"1", "3", "9", ".", "6", "9", "1", "6", "7">>)

\* Rows without coordinates: nameless with a Tokyo address, a Tokyo
\* prefecture or neither (no query, one address query); named with or
\* without a Tokyo prefecture (one or two event-name queries).
GeoRowKinds ==
    {MkRow(Url1, nap[1], Date2026, nap[2], nap[3], NoneVal, NoneVal) :
        nap \in {<<NoneVal, NoneVal, NoneVal>>, <<NoneVal, TokyoAddr, NoneVal>>,
                 <<NoneVal, NoneVal, TokyoPref>>, <<NameAbcd, NoneVal, NoneVal>>,
                 <<NameAbcd, NoneVal, TokyoPref>>}}
    \cup {MkRow(Url2, NoneVal, Date2026, NoneVal, TokyoPref, NoneVal, NoneVal)}

\* Rows with some coordinate text.
CoordRowKinds ==
    {MkRow(Url1, name, Date2026, NoneVal, NoneVal, c[1], c[2]) :
        name \in {NameAbcd, NameWxyz},
        c \in {<<JunkCoord, LngText>>, <<LatText, LngText>>,
               <<LatText, NoneVal>>, <<NoneVal, LngText>>}}

\* A row of another year.
YearRowKinds == {MkRow(Url1, NameAbcd, Date2025, NoneVal, NoneVal, NoneVal, NoneVal)}

RowKinds == GeoRowKinds \cup CoordRowKinds \cup YearRowKinds

BlankLine == [kind |-> "blank", obj |-> MkRow(NoneVal, NoneVal, NoneVal, NoneVal, NoneVal, NoneVal, NoneVal)]
BadLine == [kind |-> "bad", obj |-> MkRow(NoneVal, NoneVal, NoneVal, NoneVal, NoneVal, NoneVal, NoneVal)]
LineKinds == {BlankLine, BadLine} \cup {[kind |-> "row", obj |-> r] : r \in RowKinds}

\* Total number of raw lines over all site files.
MaxLines == 2

SeqsUpTo(S, n) == UNION {[1..k -> S] : k \in 0..n}

\* A site file: absent, or present with its lines.
NoFile == [exists |-> FALSE, lines |-> <<>>]
FileOf(ls) == [exists |-> TRUE, lines |-> ls]

\* The raw stores: each site file absent or present, MaxLines lines in all.
SiteFiles == {NoFile} \cup {FileOf(ls) : ls \in SeqsUpTo(LineKinds, MaxLines)}

RawStores ==
    {[site \in {site_ids[1], site_ids[2]} |-> IF site = site_ids[1] THEN ff[1] ELSE ff[2]] :
        ff \in {gg \in SiteFiles \X SiteFiles : Len(gg[1].lines) + Len(gg[2].lines) <= MaxLines}}

\* ------------------------------------------------------------------------
\* The geocoder collaborator (hanabi_crawler/geocode.py is outside the
\* sources at hand; its response contract is the one fusion.py relies on:
\* a status among ok, cached_ok, no_result, error, and lat/lng that may be
\* None, which fusion.py tests for even when the status is ok).
\* ------------------------------------------------------------------------
\* Points the geocoder may answer with: a point 4e-7 degree north of the
\* Tokyo centre (same coordinate once rounded to 6 decimals) and a point
\* 1.2e-6 degree north of it.
GeoPoints == {<<356894404, 1396916700>>, <<356894412, 1396916700>>}

GeocodeResponses ==
    {[status |-> st, lat |-> NoCoord, lng |-> NoCoord] : st \in {"no_result", "error"}}
    \cup {[status |-> "ok", lat |-> p[1], lng |-> p[2]] : p \in GeoPoints}
    \cup {[status |-> "cached_ok", lat |-> 356894412, lng |-> 1396916700]}
    \cup {[status |-> "ok", lat |-> NoCoord, lng |-> NoCoord]}

\* ------------------------------------------------------------------------
\* fusion.py: _load_rows
\* ------------------------------------------------------------------------
RECURSIVE LoadLines(_, _)
\* The line loop of one site file; json.loads raises on a bad line
\* (raised = TRUE).
LoadLines(ls, site) ==
    IF ls = <<>> THEN [raised |-> FALSE, rows |-> <<>>]
    ELSE IF Head(ls).kind = "blank" THEN LoadLines(Tail(ls), site)
    ELSE IF Head(ls).kind = "bad" THEN [raised |-> TRUE, rows |-> <<>>]
    ELSE LET rest == LoadLines(Tail(ls), site)
             obj == IF Head(ls).obj["source_site"].t = "none"
                    THEN [Head(ls).obj EXCEPT !["source_site"] = Str(<<site>>)]
                    ELSE Head(ls).obj
         IN [raised |-> rest.raised, rows |-> <<obj>> \o rest.rows]

RECURSIVE LoadSites(_, _)
\* _load_rows(raw_dir, site_ids): a site whose file does not exist is
\* skipped; an exception of json.loads leaves the function.
LoadSites(fs, sites) ==
    IF sites = <<>> THEN [raised |-> FALSE, rows |-> <<>>]
    ELSE IF ~fs[Head(sites)].exists THEN LoadSites(fs, Tail(sites))
    ELSE LET a == LoadLines(fs[Head(sites)].lines, Head(sites))
             b == LoadSites(fs, Tail(sites))
         IN IF a.raised THEN a
            ELSE [raised |-> b.raised, rows |-> a.rows \o b.rows]

_load_rows(fs) == LoadSites(fs, site_ids)

NoMerged == MergedBase(0, [key |-> <<>>, members |-> <<>>])

\* fuse_records line 656: rows = _load_rows(raw_dir, site_ids).  An
\* exception raised there ends fuse_records before anything is written.
LoadRows ==
    /\ pc = "load"
    /\ LET r == _load_rows(files)
       IN IF r.raised
          THEN /\ pc' = "raised"
               /\ rows' = <<>>
          ELSE /\ pc' = "prepare"
               /\ rows' = r.rows
    /\ UNCHANGED NotFusion
    /\ UNCHANGED <<files, geocode_enabled, before_repair, groups, gi, merged, queries, fused_rows,
                   geocode_entries, dedup_entries, suspicious, rqueries,
                   overlap_repair_entries>>

\* fuse_records lines 660-676: annotate, year filter, grouping.
PrepareRows ==
    /\ pc = "prepare"
    /\ LET annotated == [i \in 1..Len(rows) |-> Annotate(rows[i])]
           InYear(row) == row["_event_year"].s = target_year_str
           kept == SelectSeq(annotated, InYear)
       IN /\ rows' = kept
          /\ groups' = GroupRows(kept, <<>>)
          /\ pc' = IF kept = <<>> THEN "repair" ELSE "fuse"
    /\ gi' = 1
    /\ UNCHANGED NotFusion
    /\ UNCHANGED <<files, geocode_enabled, before_repair, merged, queries, fused_rows, geocode_entries,
                   dedup_entries, suspicious, rqueries, overlap_repair_entries>>

\* ------------------------------------------------------------------------
\* fusion.py: fuse_records, the group loop
\* ------------------------------------------------------------------------
\* A row of geocode_log: canonical_id, source and status of its columns.
GeoEntry(cid, source, status) == [canonical_id |-> cid, source |-> source, status |-> status]

\* Lines 768-782: the geocode_log row of one geocoder answer, with the
\* query_strategy, lat and lng columns.
AttemptEntry(cid, q, resp) ==
    [canonical_id |-> cid, source |-> "geocoder", status |-> resp.status,
     strategy |-> q.strategy, lat |-> resp.lat, lng |-> resp.lng]

\* A variant that logs only the answers that did not resolve.
LoggedFailuresOnly(cid, q, resp) ==
    IF resp.status \in {"ok", "cached_ok"} /\ resp.lat # NoCoord /\ resp.lng # NoCoord
    THEN <<>>
    ELSE <<AttemptEntry(cid, q, resp)>>

\* Lines 765-782: geocode_entries.append(...) after geocoder.geocode(query).
LoggedAttempt(cid, q, resp) == <<AttemptEntry(cid, q, resp)>>

\* A variant of the fallback that marks the row missing but leaves the
\* voted lat/lng in place.
PrefFallbackKeepsVoted(m) ==
    LET pref_center == _resolve_prefecture_center(m)
    IN IF pref_center # <<>>
       THEN [row |-> [m EXCEPT !.lat = Num(pref_center[1]), !.lng = Num(pref_center[2]),
                               !.geo_source = GS("pref_center_fallback")],
             entries |-> <<GeoEntry(m.canonical_id, "pref_center", "fallback_pref_center")>>]
       ELSE [row |-> [m EXCEPT !.geo_source = GS("missing")],
             entries |-> <<>>]

\* Lines 795-819 and 826-849: prefecture centre, else missing.
PrefFallback(m) ==
    LET pref_center == _resolve_prefecture_center(m)
    IN IF pref_center # <<>>
       THEN [row |-> [m EXCEPT !.lat = Num(pref_center[1]), !.lng = Num(pref_center[2]),
                               !.geo_source = GS("pref_center_fallback")],
             entries |-> <<GeoEntry(m.canonical_id, "pref_center", "fallback_pref_center")>>]
       ELSE [row |-> [m EXCEPT !.lat = EmptyStr, !.lng = EmptyStr,
                               !.geo_source = GS("missing")],
             entries |-> <<>>]

\* A variant of the dedup log that marks every member as canonical.
DedupRowsAllCanonical(cid, g) ==
    [i \in 1..Len(g.members) |->
        [canonical_id |-> cid, dedup_key |-> g.key,
         source_site |-> StrOfSite(g.members[i]),
         action |-> "canonical"]]

\* Lines 878-892: one dedup-log row per member.
DedupRows(cid, g) ==
    [i \in 1..Len(g.members) |->
        [canonical_id |-> cid, dedup_key |-> g.key,
         source_site |-> StrOfSite(g.members[i]),
         action |-> IF i = 1 THEN "canonical" ELSE "merged"]]

\* Lines 876-892 and the loop step: the merged row joins fused_rows, its
\* members join the dedup log, the next group is taken.
FinishGroup(m, new_entries) ==
    /\ fused_rows' = Append(fused_rows, m)
    /\ geocode_entries' = geocode_entries \o new_entries
    /\ dedup_entries' = dedup_entries \o DedupRows(m.canonical_id, groups[gi])
    /\ gi' = gi + 1
    /\ pc' = IF gi = Len(groups) THEN "repair" ELSE "fuse"
    /\ merged' = NoMerged
    /\ queries' = <<>>

\* Lines 724-763 and 820-849: one group up to its first geocoder call.
FuseGroup ==
    /\ pc = "fuse"
    /\ gi <= Len(groups)
    /\ \E m \in {MergedBase(gi, groups[gi])} :
         \E lat \in {ToCoord(m.lat)}, lng \in {ToCoord(m.lng)} :
           IF lat # NoCoord /\ lng # NoCoord
           THEN FinishGroup([m EXCEPT !.lat = Num(lat), !.lng = Num(lng),
                                      !.geo_source = GS("source_exact")],
                            <<GeoEntry(m.canonical_id, "existing", "existing_coord")>>)
           ELSE IF geocode_enabled
           THEN \E qs \in {_build_geocode_queries(m)} :
                  IF qs = <<>>
                  THEN \E fb \in {PrefFallback(m)} :
                         FinishGroup(fb.row,
                                     <<GeoEntry(m.canonical_id, "geocoder", "skipped_no_query")>>
                                     \o fb.entries)
                  ELSE /\ merged' = m
                       /\ queries' = qs
                       /\ pc' = "geocode"
                       /\ UNCHANGED <<fused_rows, geocode_entries, dedup_entries, gi>>
           ELSE \E fb \in {PrefFallback(m)} :
                  FinishGroup(fb.row, fb.entries)
    /\ UNCHANGED NotFusion
    /\ UNCHANGED <<files, geocode_enabled, before_repair, rows, groups, suspicious, rqueries,
                   overlap_repair_entries>>

\* A variant that appends the cache suffix before the title suffix.
GeocodeSourceCacheFirst(strategy, status) ==
    <<"network_geocode">>
    \o (IF status = "cached_ok" THEN <<"_cache">> ELSE <<>>)
    \o (IF HasEventName(strategy) THEN <<"_title">> ELSE <<>>)

\* Lines 786-791: the geo_source of a resolved query.
GeocodeSource(strategy, status) ==
    <<"network_geocode">>
    \o (IF HasEventName(strategy) THEN <<"_title">> ELSE <<>>)
    \o (IF status = "cached_ok" THEN <<"_cache">> ELSE <<>>)

\* A variant of the test that looks at the status alone.
resolved_by_status(resp) == resp.status \in {"ok", "cached_ok"}

\* Line 783: resp.status in {"ok", "cached_ok"} and resp.lat is not None
\* and resp.lng is not None
resolved_by(resp) ==
    resp.status \in {"ok", "cached_ok"} /\ resp.lat # NoCoord /\ resp.lng # NoCoord

\* Lines 764-819: one pass of the query loop with the geocoder's answer;
\* after the last unanswered query the fallback runs.
GeocodeQuery ==
    /\ pc = "geocode"
    /\ \E resp \in GeocodeResponses :
         LET logged == LoggedAttempt(merged.canonical_id, Head(queries), resp)
         IN IF resolved_by(resp)
            THEN FinishGroup([merged EXCEPT !.lat = Num(resp.lat), !.lng = Num(resp.lng),
                                            !.geo_source =
                                                GeocodeSource(Head(queries).strategy, resp.status)],
                             logged)
            ELSE IF Len(queries) = 1
            THEN LET fb == PrefFallback(merged)
                 IN FinishGroup(fb.row, logged \o fb.entries)
            ELSE /\ queries' = Tail(queries)
                 /\ geocode_entries' = geocode_entries \o logged
                 /\ UNCHANGED <<pc, merged, fused_rows, dedup_entries, gi>>
    /\ UNCHANGED NotFusion
    /\ UNCHANGED <<files, geocode_enabled, before_repair, rows, groups, suspicious, rqueries,
                   overlap_repair_entries>>

\* ------------------------------------------------------------------------
\* fusion.py: _repair_overlap_coordinates
\* ------------------------------------------------------------------------
RECURSIVE GroupCoords(_, _, _)
\* Lines 291-297: rows with a coordinate, grouped by the rounded point, in
\* order of first insertion.
GroupCoords(frows, i, grouped) ==
    IF i > Len(frows) THEN grouped
    ELSE LET lat == ToCoord(frows[i].lat)
             lng == ToCoord(frows[i].lng)
             key == <<Round6(lat), Round6(lng)>>
             k == GroupIdx(grouped, key)
         IN IF lat = NoCoord \/ lng = NoCoord THEN GroupCoords(frows, i + 1, grouped)
            ELSE IF k = 0
            THEN GroupCoords(frows, i + 1, Append(grouped, [key |-> key, members |-> <<i>>]))
            ELSE GroupCoords(frows, i + 1,
                             [grouped EXCEPT ![k].members = Append(grouped[k].members, i)])

RECURSIVE SuspiciousMembers(_, _)
\* Lines 299-309: the members of the groups of two or more rows whose
\* geo_source is low-confidence throughout, flattened in visiting order.
SuspiciousMembers(frows, grouped) ==
    IF grouped = <<>> THEN <<>>
    ELSE LET g == Head(grouped)
             rest == SuspiciousMembers(frows, Tail(grouped))
         IN IF Len(g.members) < 2 THEN rest
            ELSE IF ~(\A j \in 1..Len(g.members) :
                        _is_low_confidence_geo_source(frows[g.members[j]].geo_source))
            THEN rest
            ELSE [j \in 1..Len(g.members) |->
                    [row_index |-> g.members[j], old_lat |-> g.key[1], old_lng |-> g.key[2]]]
                 \o rest

\* A row of the overlap-repair log (lines 315-331 and 339-355).
RepairEntry(cid, status, old_lat, old_lng, new_lat, new_lng) ==
    [canonical_id |-> cid, source |-> "overlap_repair", status |-> status,
     old_lat |-> old_lat, old_lng |-> old_lng, new_lat |-> new_lat, new_lng |-> new_lng]

\* Lines 288-307: no geocoder, no repair; else the suspicious groups.
RepairDetect ==
    /\ pc = "repair"
    /\ before_repair' = fused_rows
    /\ IF ~geocode_enabled
       THEN /\ suspicious' = <<>>
            /\ pc' = "write"
       ELSE LET work == SuspiciousMembers(fused_rows, GroupCoords(fused_rows, 1, <<>>))
            IN /\ suspicious' = work
               /\ pc' = IF work = <<>> THEN "write" ELSE "repair_row"
    /\ UNCHANGED NotFusion
    /\ UNCHANGED <<files, geocode_enabled, rows, groups, gi, merged, queries, fused_rows,
                   geocode_entries, dedup_entries, rqueries, overlap_repair_entries>>

\* The member loop moves on.
NextMember ==
    /\ suspicious' = Tail(suspicious)
    /\ rqueries' = <<>>
    /\ pc' = IF Len(suspicious) = 1 THEN "write" ELSE "repair_row"

\* Lines 309-332: one member up to its first geocoder call.
RepairRow ==
    /\ pc = "repair_row"
    /\ LET row == fused_rows[Head(suspicious).row_index]
           qs == _build_overlap_repair_queries(row)
       IN IF qs = <<>>
          THEN /\ overlap_repair_entries' =
                     Append(overlap_repair_entries,
                            RepairEntry(row.canonical_id, "skipped_no_query",
                                        Head(suspicious).old_lat, Head(suspicious).old_lng,
                                        NoCoord, NoCoord))
               /\ NextMember
          ELSE /\ rqueries' = qs
               /\ pc' = "repair_query"
               /\ UNCHANGED <<suspicious, overlap_repair_entries>>
    /\ UNCHANGED NotFusion
    /\ UNCHANGED <<files, geocode_enabled, before_repair, rows, groups, gi, merged, queries, fused_rows,
                   geocode_entries, dedup_entries>>

\* Lines 361-367: the geo_source of a repaired row.
RepairedSource(strategy, status) ==
    <<"network_geocode", "_overlap_repair">>
    \o (IF HasEventName(strategy) THEN <<"_title">> ELSE <<>>)
    \o (IF status = "cached_ok" THEN <<"_cache">> ELSE <<>>)

\* A variant of the same-point test without tolerance.
SamePointExact(resp, old_lat, old_lng) ==
    resp.lat = old_lat /\ resp.lng = old_lng

\* A variant of the same-point test with twice the tolerance.
SamePointWide(resp, old_lat, old_lng) ==
    /\ Abs(resp.lat - old_lat) <= 2 * COORD_EPSILON
    /\ Abs(resp.lng - old_lng) <= 2 * COORD_EPSILON

\* Line 358: the answer is the old point again.
SamePoint(resp, old_lat, old_lng) ==
    Abs(resp.lat - old_lat) <= COORD_EPSILON /\ Abs(resp.lng - old_lng) <= COORD_EPSILON

\* Lines 335-373: one pass of the repair query loop with the geocoder's
\* answer.
RepairQuery ==
    /\ pc = "repair_query"
    /\ \E resp \in GeocodeResponses :
         LET it == Head(suspicious)
             row == fused_rows[it.row_index]
         IN /\ overlap_repair_entries' =
                  Append(overlap_repair_entries,
                         RepairEntry(row.canonical_id, resp.status, it.old_lat, it.old_lng,
                                     resp.lat, resp.lng))
            /\ IF \/ resp.status \notin {"ok", "cached_ok"}
                  \/ resp.lat = NoCoord \/ resp.lng = NoCoord
                  \/ SamePoint(resp, it.old_lat, it.old_lng)
               THEN /\ fused_rows' = fused_rows
                    /\ IF Len(rqueries) = 1
                       THEN NextMember
                       ELSE /\ rqueries' = Tail(rqueries)
                            /\ UNCHANGED <<pc, suspicious>>
               ELSE /\ fused_rows' =
                          [fused_rows EXCEPT ![it.row_index] =
                              [row EXCEPT !.lat = Num(resp.lat), !.lng = Num(resp.lng),
                                          !.geo_source =
                                              RepairedSource(Head(rqueries).strategy, resp.status)]]
                    /\ NextMember
    /\ UNCHANGED NotFusion
    /\ UNCHANGED <<files, geocode_enabled, before_repair, rows, groups, gi, merged, queries,
                   geocode_entries, dedup_entries>>

\* Lines 900-1024: the fused rows and the logs are written.
WriteOutputs ==
    /\ pc = "write"
    /\ pc' = "done"
    /\ UNCHANGED NotFusion
    /\ UNCHANGED <<files, geocode_enabled, before_repair, rows, groups, gi, merged, queries, fused_rows,
                   geocode_entries, dedup_entries, suspicious, rqueries,
                   overlap_repair_entries>>

\* ------------------------------------------------------------------------
\* Specification of a fusion run
\* ------------------------------------------------------------------------
Init ==
    /\ files \in RawStores
    /\ geocode_enabled \in BOOLEAN
    /\ pc = "load"
    /\ rows = <<>>
    /\ groups = <<>>
    /\ gi = 1
    /\ merged = NoMerged
    /\ queries = <<>>
    /\ fused_rows = <<>>
    /\ geocode_entries = <<>>
    /\ dedup_entries = <<>>
    /\ suspicious = <<>>
    /\ rqueries = <<>>
    /\ overlap_repair_entries = <<>>
    /\ before_repair = <<>>
    /\ VoteIdle
    /\ ContentIdle
    /\ StageIdle
    /\ ExportIdle
    /\ GeohashIdle
    /\ NetworkIdle
    /\ CodexIdle
    /\ ScoreIdle
    /\ ImagesIdle

Next ==
    \/ LoadRows
    \/ PrepareRows
    \/ FuseGroup
    \/ GeocodeQuery
    \/ RepairDetect
    \/ RepairRow
    \/ RepairQuery
    \/ WriteOutputs

Spec == Init /\ [][Next]_vars

TypeOK == pc \in {"load", "raised", "prepare", "fuse", "geocode", "repair", "repair_row",
                  "repair_query", "write", "done"}

\* ------------------------------------------------------------------------
\* Properties of a fusion run
\* ------------------------------------------------------------------------
Done == pc = "done"

FusedIdx == 1..Len(fused_rows)

HasPoint(i) == ToCoord(fused_rows[i].lat) # NoCoord /\ ToCoord(fused_rows[i].lng) # NoCoord

RoundedPoint(i) == <<Round6(ToCoord(fused_rows[i].lat)), Round6(ToCoord(fused_rows[i].lng))>>

\* The events that share the rounded point of event i.
SharedPoint(i) == {j \in FusedIdx : HasPoint(j) /\ RoundedPoint(j) = RoundedPoint(i)}

\* Low confidence as the glossary has it: missing, the prefecture centre,
\* or any network_geocode value.
LowConfidence(gs) ==
    gs \in {<<"missing">>, <<"pref_center_fallback">>} \/ (gs # <<>> /\ Head(gs) = "network_geocode")

IsOverlapRepair(gs) == Len(gs) >= 2 /\ gs[1] = "network_geocode" /\ gs[2] = "_overlap_repair"

\* The overlap-repair log rows of event i.
RepairAttempts(i) ==
    {e \in {overlap_repair_entries[k] : k \in 1..Len(overlap_repair_entries)} :
        e.canonical_id = fused_rows[i].canonical_id}

FailedStatuses == {"no_result", "error", "skipped_no_query"}

\* A logged answer that names no point, or the old point again.
Rejected(e) ==
    /\ e.status \in {"ok", "cached_ok"}
    /\ \/ e.new_lat = NoCoord
       \/ e.new_lng = NoCoord
       \/ /\ Abs(e.new_lat - e.old_lat) <= 10
          /\ Abs(e.new_lng - e.old_lng) <= 10

\* C1 as stated: after overlap repair, for any rounded point shared by two
\* or more events, either one of them has a non-low-confidence geo_source,
\* or every repair attempt made for each of them is logged with status
\* no_result, error or skipped_no_query.
C1_AsStated ==
    Done =>
        \A i \in FusedIdx :
            (HasPoint(i) /\ Cardinality(SharedPoint(i)) >= 2) =>
                \/ \E j \in SharedPoint(i) : ~LowConfidence(fused_rows[j].geo_source)
                \/ \A j \in SharedPoint(i) : \A e \in RepairAttempts(j) :
                       e.status \in FailedStatuses

\* C1 amended: after overlap repair, for any rounded point shared by two or
\* more events, either one of them has a geo_source that is not
\* low-confidence or is an overlap-repair value, or every repair attempt
\* made for each of them is logged with status no_result, error or
\* skipped_no_query, or with status ok or cached_ok and no point or a point
\* within 1e-6 of the old rounded point in both axes.
C1_Amended ==
    Done =>
        \A i \in FusedIdx :
            (HasPoint(i) /\ Cardinality(SharedPoint(i)) >= 2) =>
                \/ \E j \in SharedPoint(i) :
                       \/ ~LowConfidence(fused_rows[j].geo_source)
                       \/ IsOverlapRepair(fused_rows[j].geo_source)
                \/ \A j \in SharedPoint(i) : \A e \in RepairAttempts(j) :
                       e.status \in FailedStatuses \/ Rejected(e)

\* Two low-confidence events still share a point after the repair, and
\* the geocoder answered one of them with the old point.
C1_Witness ==
    /\ Done
    /\ \E i \in FusedIdx :
         /\ HasPoint(i)
         /\ Cardinality(SharedPoint(i)) >= 2
         /\ \A j \in SharedPoint(i) :
              /\ LowConfidence(fused_rows[j].geo_source)
              /\ ~IsOverlapRepair(fused_rows[j].geo_source)
         /\ \E j \in SharedPoint(i) : \E e \in RepairAttempts(j) :
              e.status \in {"ok", "cached_ok"} /\ e.new_lat # NoCoord

\* The member rows of the group behind fused row i.
Members(i) == {groups[i].members[k] : k \in 1..Len(groups[i].members)}

\* C2 as stated: geo_source = source_exact if and only if at least one
\* member row of the event's group had parseable numeric lat/lng.  The
\* "only if" half is read in its weakest sense (some member had a
\* parseable lat and some member a parseable lng); the "if" half is read
\* for a member that carries a parseable pair.
C2_AsStated ==
    \A i \in FusedIdx :
        /\ (fused_rows[i].geo_source = <<"source_exact">>) =>
               /\ \E m \in Members(i) : ToCoord(m.lat) # NoCoord
               /\ \E m \in Members(i) : ToCoord(m.lng) # NoCoord
        /\ (\E m \in Members(i) : ToCoord(m.lat) # NoCoord /\ ToCoord(m.lng) # NoCoord)
               => fused_rows[i].geo_source = <<"source_exact">>

EightSources ==
    {<<"source_exact">>, <<"network_geocode">>, <<"network_geocode", "_title">>,
     <<"network_geocode", "_cache">>, <<"network_geocode", "_overlap_repair">>,
     <<"network_geocode", "_overlap_repair", "_title">>,
     <<"pref_center_fallback">>, <<"missing">>}

CachedTitleSources ==
    {<<"network_geocode", "_title", "_cache">>,
     <<"network_geocode", "_overlap_repair", "_cache">>,
     <<"network_geocode", "_overlap_repair", "_title", "_cache">>}

\* C3 as stated: in the fused output the geo_source of every event is one
\* of the eight listed values.
C3_AsStated == Done => \A i \in FusedIdx : fused_rows[i].geo_source \in EightSources

\* C3 amended: in the fused output the geo_source of every event is one of
\* the eight listed values or one of network_geocode_title_cache,
\* network_geocode_overlap_repair_cache and
\* network_geocode_overlap_repair_title_cache.
C3_Amended ==
    \A i \in FusedIdx : fused_rows[i].geo_source \in EightSources \cup CachedTitleSources

\* A run ends with an event resolved by a cached answer to a title query.
C3_Witness ==
    /\ Done
    /\ \E i \in FusedIdx : fused_rows[i].geo_source = <<"network_geocode", "_title", "_cache">>

\* C4: in the fused output an event has geo_source = missing if and only
\* if its lat and lng are both the empty string, and every event with
\* another geo_source carries numeric lat and lng.
C4_MissingIffNoCoordinate ==
    Done =>
        \A i \in FusedIdx :
            /\ (fused_rows[i].geo_source = <<"missing">>)
                   <=> (fused_rows[i].lat = EmptyStr /\ fused_rows[i].lng = EmptyStr)
            /\ (fused_rows[i].geo_source # <<"missing">>)
                   => (fused_rows[i].lat.t = "num" /\ fused_rows[i].lng.t = "num")

\* A run ends with a missing event whose group had voted an unparseable
\* lat, next to an event that carries a point.
C4_Witness ==
    /\ Done
    /\ \E i \in FusedIdx :
         /\ fused_rows[i].geo_source = <<"missing">>
         /\ \E m \in Members(i) : m.lat.t = "str" /\ m.lat.s # <<>>
    /\ \E j \in FusedIdx : fused_rows[j].geo_source # <<"missing">> /\ HasPoint(j)

\* The geocode_log rows of event i, in log order.
LogRowsOf(i) ==
    LET Mine(e) == e.canonical_id = fused_rows[i].canonical_id
    IN SelectSeq(geocode_entries, Mine)

IsNetworkGeocode(gs) == gs # <<>> /\ Head(gs) = "network_geocode"

\* C5 as stated: every event whose final geo_source starts with
\* network_geocode has exactly one geocode_log row with its canonical_id.
C5_AsStated ==
    Done =>
        \A i \in FusedIdx :
            IsNetworkGeocode(fused_rows[i].geo_source) => Len(LogRowsOf(i)) = 1

\* C5 amended: every event whose final geo_source starts with
\* network_geocode has at least one geocode_log row with its canonical_id
\* (one per query attempted); unless the geo_source is an overlap-repair
\* value, the last of these rows is the geocoder row with status ok or
\* cached_ok and the earlier ones are geocoder rows too; the resolving
\* answer of an overlap-repaired event is a row of the overlap-repair log.
C5_Amended ==
    Done =>
        \A i \in FusedIdx :
            IsNetworkGeocode(fused_rows[i].geo_source) =>
                LET es == LogRowsOf(i)
                IN /\ Len(es) >= 1
                   /\ ~IsOverlapRepair(fused_rows[i].geo_source) =>
                          /\ es[Len(es)].status \in {"ok", "cached_ok"}
                          /\ \A k \in 1..Len(es) : es[k].source = "geocoder"
                   /\ IsOverlapRepair(fused_rows[i].geo_source) =>
                          \E e \in RepairAttempts(i) :
                              e.status \in {"ok", "cached_ok"} /\ e.new_lat # NoCoord

\* A run ends with an event resolved by its second query, and with an
\* overlap-repaired event.
C5_Witness ==
    /\ Done
    /\ \E i \in FusedIdx :
         /\ IsNetworkGeocode(fused_rows[i].geo_source)
         /\ ~IsOverlapRepair(fused_rows[i].geo_source)
         /\ Len(LogRowsOf(i)) = 2
    /\ \E j \in FusedIdx : IsOverlapRepair(fused_rows[j].geo_source)

RECURSIVE DistinctKeys(_, _)
\* The dedup keys of the rows in order of first occurrence.
DistinctKeys(rs, seen) ==
    IF rs = <<>> THEN seen
    ELSE LET key == _dedup_key(Head(rs))
         IN IF \E k \in 1..Len(seen) : seen[k] = key
            THEN DistinctKeys(Tail(rs), seen)
            ELSE DistinctKeys(Tail(rs), Append(seen, key))

\* "E" and the six decimal digits of k.
SerialId(k) == <<"E">> \o [j \in 1..6 |-> Digits[((k \div Pow10(6 - j)) % 10) + 1]]

\* C6: canonical_id "E" + 6-digit k goes to the k-th distinct dedup key in
\* first-occurrence order among the year-filtered rows, so the ids of a
\* run are unique and the id -> key mapping is a function of the input.
C6_SerialByFirstOccurrence ==
    (pc \in {"fuse", "geocode", "repair", "repair_row", "repair_query", "write", "done"}) =>
        LET keys == DistinctKeys(rows, <<>>)
        IN /\ Len(fused_rows) <= Len(keys)
           /\ Done => Len(fused_rows) = Len(keys)
           /\ \A k \in FusedIdx :
                /\ fused_rows[k].canonical_id = SerialId(k)
                /\ fused_rows[k].dedup_key = keys[k]
           /\ \A k1, k2 \in FusedIdx :
                fused_rows[k1].canonical_id = fused_rows[k2].canonical_id => k1 = k2

\* A run over two rows ends with two events of different dedup keys, in
\* the order in which their rows were read.
C6_Witness ==
    /\ Done
    /\ Len(fused_rows) = 2
    /\ Len(rows) = 2
    /\ fused_rows[1].dedup_key # fused_rows[2].dedup_key

\* The rows of the parseable lines of the site files that exist, sites in
\* the given order, lines in file order.
ParseableRows(site) ==
    LET f == files[site]
        IsRow(l) == l.kind = "row"
        ls == SelectSeq(f.lines, IsRow)
    IN IF ~f.exists THEN <<>>
       ELSE [k \in 1..Len(ls) |->
               IF ls[k].obj["source_site"].t = "none"
               THEN [ls[k].obj EXCEPT !["source_site"] = Str(<<site>>)]
               ELSE ls[k].obj]

\* C8 as stated: a raw line that fails to parse never aborts the stage,
\* all other lines of that file and all other files are still loaded; a
\* site id whose file does not exist is skipped.
C8_AsStated ==
    /\ pc # "raised"
    /\ (pc = "prepare") => rows = ParseableRows(site_ids[1]) \o ParseableRows(site_ids[2])

\* ------------------------------------------------------------------------
\* Field voting on its own (fuse_records lines 738-746 over one group)
\* ------------------------------------------------------------------------
\* Largest number of member rows of the voted group.
MaxMembers == 2

VoteFields == {"event_name", "venue_address", "lat"}

VoteSites == {"hanabi_cloud", "jalan", "elsewhere"}

Rep(c, n) == [i \in 1..n |-> c]

\* Field values of all score classes: None, empty, blank, placeholders,
\* short texts, texts around the 80 and 200 character marks, a number.
VoteValues ==
    {NoneVal, EmptyStr, Str(<<" ", " ">>), Str(<<"-", "-">>), Str(<<"mi", "tei">>),
     Str(<<"a", "b">>), Str(<<"a", " ", " ", "b">>), Str(Rep("a", 79)), Str(Rep("a", 81)),
     Str(Rep("a", 200)), Str(Rep("b", 201)), LatText, Num(356894400)}

\* A member row of site with value under field.
VoteRow(site, field, value) ==
    [MkRow(NoneVal, NoneVal, NoneVal, NoneVal, NoneVal, NoneVal, NoneVal)
        EXCEPT !["source_site"] = Str(<<site>>), ![field] = value]

\* No fusion run.
FusionIdle ==
    /\ files = [site \in {site_ids[1], site_ids[2]} |-> NoFile]
    /\ geocode_enabled = FALSE
    /\ pc = "off"
    /\ rows = <<>>
    /\ groups = <<>>
    /\ gi = 1
    /\ merged = NoMerged
    /\ queries = <<>>
    /\ fused_rows = <<>>
    /\ geocode_entries = <<>>
    /\ dedup_entries = <<>>
    /\ suspicious = <<>>
    /\ rqueries = <<>>
    /\ overlap_repair_entries = <<>>
    /\ before_repair = <<>>

InitVote ==
    /\ vote_pc = "ready"
    /\ vote_field \in VoteFields
    /\ \E n \in 1..MaxMembers :
         \E sv \in [1..n -> VoteSites \X VoteValues] :
           vote_members = [i \in 1..n |-> VoteRow(sv[i][1], vote_field, sv[i][2])]
    /\ vote_result = <<>>
    /\ FusionIdle
    /\ ContentIdle
    /\ StageIdle
    /\ ExportIdle
    /\ GeohashIdle
    /\ NetworkIdle
    /\ CodexIdle
    /\ ScoreIdle
    /\ ImagesIdle

\* Lines 738-746 for one field: merged[field] = the voted value.
VoteField ==
    /\ vote_pc = "ready"
    /\ vote_result' = Vote(vote_field, vote_members)
    /\ vote_pc' = "voted"
    /\ UNCHANGED <<vote_field, vote_members>>
    /\ UNCHANGED NotVote

NextVote == VoteField

SpecVote == InitVote /\ [][NextVote]_vars

\* The score of the claim: 0 for empty, 1 for a placeholder token,
\* site_weight x 10 + max(0, 80 - len) for event_name, site_weight x 100 +
\* 100 for lat/lng, site_weight x 10 + min(len, 200) otherwise.
ClaimScore(field, m) ==
    LET text == Clean(m[field])
        w == site_weight(StrOfSite(m))
    IN IF text = <<>> THEN 0
       ELSE IF text \in PlaceholderTokens THEN 1
       ELSE IF field = "event_name"
            THEN w * 10 + (IF Len(text) < 80 THEN 80 - Len(text) ELSE 0)
       ELSE IF field \in {"lat", "lng"} THEN w * 100 + 100
       ELSE w * 10 + (IF Len(text) < 200 THEN Len(text) ELSE 200)

\* C7: the voted value is that of a member whose score no member exceeds,
\* and which is the first in group order among the members of that score.
C7_VoteIsFirstMaximal ==
    (vote_pc = "voted") =>
        \E j \in 1..Len(vote_members) :
            /\ vote_result = vote_members[j][vote_field]
            /\ \A k \in 1..Len(vote_members) :
                 ClaimScore(vote_field, vote_members[k]) <= ClaimScore(vote_field, vote_members[j])
            /\ \A k \in 1..(j - 1) :
                 ClaimScore(vote_field, vote_members[k]) < ClaimScore(vote_field, vote_members[j])

\* A vote over two members of equal positive score and different values
\* has been taken.
C7_Witness ==
    /\ vote_pc = "voted"
    /\ Len(vote_members) = 2
    /\ vote_members[1][vote_field] # vote_members[2][vote_field]
    /\ ClaimScore(vote_field, vote_members[1]) = ClaimScore(vote_field, vote_members[2])
    /\ ClaimScore(vote_field, vote_members[1]) > 1

\* ------------------------------------------------------------------------
\* enrich_event_content.py: one pass of the event loop of run_project
\* ------------------------------------------------------------------------
\* URLs are texts over the characters "a" and "b"; LF is the byte b"\n".
LF == "LF"

CodePoint(c) == IF c = "a" THEN 97 ELSE IF c = "b" THEN 98 ELSE 10

\* Python's str "<": code points compared left to right, a proper prefix
\* is smaller.
StrLess(x, y) ==
    LET n == Min(Len(x), Len(y))
        diff == {i \in 1..n : x[i] # y[i]}
        d == FirstIdx(diff)
    IN IF diff = {} THEN Len(x) < Len(y)
       ELSE CodePoint(x[d]) < CodePoint(y[d])

RECURSIVE InsertSorted(_, _)
InsertSorted(x, xs) ==
    IF xs = <<>> THEN <<x>>
    ELSE IF StrLess(x, Head(xs)) THEN <<x>> \o xs
    ELSE <<Head(xs)>> \o InsertSorted(x, Tail(xs))

RECURSIVE Sorted(_)
\* sorted(urls)
Sorted(urls) == IF urls = <<>> THEN <<>> ELSE InsertSorted(Head(urls), Sorted(Tail(urls)))

\* hashlib.sha256 over a byte string: the digest stands for the bytes it
\* was fed (SHA-256 taken as collision-free).
Sha256(bytes) == [hexdigest_of |-> bytes]

RECURSIVE DigestUpdates(_)
\* Lines 622-624: digest.update(url), digest.update(b"\n") per url.
DigestUpdates(urls) ==
    IF urls = <<>> THEN <<>> ELSE Head(urls) \o <<LF>> \o DigestUpdates(Tail(urls))

\* A variant that feeds the urls in the order given.
source_signature_unsorted(urls) == Sha256(DigestUpdates(urls))

\* source_signature(urls)
source_signature(urls) == Sha256(DigestUpdates(Sorted(urls)))

RECURSIVE Dedupe(_, _)
Dedupe(urls, seen) ==
    IF urls = <<>> THEN <<>>
    ELSE IF Head(urls) \in seen THEN Dedupe(Tail(urls), seen)
    ELSE <<Head(urls)>> \o Dedupe(Tail(urls), seen \cup {Head(urls)})

\* parse_source_urls(row) for a row whose source_urls is a list of
\* non-blank texts and whose source_url is absent: the list without its
\* repetitions.
parse_source_urls(row_urls) == Dedupe(row_urls, {})

\* str(previous.get("source_urls_sig") or "") of a record without one.
NoSig == [hexdigest_of |-> <<"none">>]

\* parse_iso_datetime(...) is None.
NoDate == -1

\* A content record: the fields the reuse decisions read.  fetched_at is
\* the age of the record in days at the time of the run, or NoDate;
\* raw_description and image_urls say whether the field is non-empty;
\* has_i18n says whether the zh and en texts are complete, has_ja whether
\* polished_description and one_liner are both non-empty.
Rec(s, fetched_at, desc, images, mode, i18n, status, error) ==
    [source_urls_sig |-> s, fetched_at |-> fetched_at, raw_description |-> desc,
     image_urls |-> images, polish_mode |-> mode, has_i18n |-> i18n, has_ja |-> TRUE,
     status |-> status, error |-> error]

\* previous is None.
NoRecord == [status |-> "none"]

\* should_use_openai(mode, has_api_key)
should_use_openai(mode, has_api_key) ==
    IF mode = "codex" THEN FALSE
    ELSE IF mode = "openai" THEN TRUE
    ELSE IF mode = "none" THEN FALSE
    ELSE has_api_key

\* main, lines 2302-2304: mode openai without an API key falls back to
\* none before any project is run. api_key says whether the stripped key
\* is non-empty.
main_polish_mode(a) ==
    IF a.polish_mode = "openai" /\ ~a.api_key THEN "none" ELSE a.polish_mode

\* A variant that builds the codex polisher when mode auto finds no key.
PolisherAutoCodex(a) ==
    IF should_use_openai(main_polish_mode(a), a.api_key) /\ a.api_key THEN "openai"
    ELSE IF main_polish_mode(a) \in {"codex", "auto"} THEN "codex"
    ELSE "none"

\* Lines 1698-1728: which polisher run_project builds.
Polisher(a) ==
    IF should_use_openai(main_polish_mode(a), a.api_key) /\ a.api_key THEN "openai"
    ELSE IF main_polish_mode(a) = "codex" THEN "codex"
    ELSE "none"

\* A variant of the age test that refuses a record exactly
\* min_refresh_days old.
is_recent_enough_strict(previous, current_signature, min_refresh_days, force) ==
    IF force THEN FALSE
    ELSE IF previous = NoRecord THEN FALSE
    ELSE IF previous.source_urls_sig # current_signature THEN FALSE
    ELSE IF previous.fetched_at = NoDate THEN FALSE
    ELSE IF previous.fetched_at >= Max(min_refresh_days, 0) THEN FALSE
    ELSE previous.raw_description \/ previous.image_urls

\* is_recent_enough(previous, current_signature=, min_refresh_days=, force=)
is_recent_enough(previous, current_signature, min_refresh_days, force) ==
    IF force THEN FALSE
    ELSE IF previous = NoRecord THEN FALSE
    ELSE IF previous.source_urls_sig # current_signature THEN FALSE
    ELSE IF previous.fetched_at = NoDate THEN FALSE
    ELSE IF previous.fetched_at > Max(min_refresh_days, 0) THEN FALSE
    ELSE previous.raw_description \/ previous.image_urls

\* A variant that does not look at the error text.
is_failed_or_incomplete_no_error(previous) ==
    IF previous = NoRecord THEN TRUE
    ELSE IF previous.status \in {"partial", "empty", "openai_failed", "codex_failed"} THEN TRUE
    ELSE IF ~previous.raw_description /\ ~previous.image_urls THEN TRUE
    ELSE IF previous.raw_description /\ (~previous.has_ja \/ ~previous.has_i18n) THEN TRUE
    ELSE FALSE

\* is_failed_or_incomplete(previous)
is_failed_or_incomplete(previous) ==
    IF previous = NoRecord THEN TRUE
    ELSE IF previous.status \in {"partial", "empty", "openai_failed", "codex_failed"} THEN TRUE
    ELSE IF previous.error # "" THEN TRUE
    ELSE IF ~previous.raw_description /\ ~previous.image_urls THEN TRUE
    ELSE IF previous.raw_description /\ (~previous.has_ja \/ ~previous.has_i18n) THEN TRUE
    ELSE FALSE

\* should_reuse_success_in_failed_only(previous, force=)
should_reuse_success_in_failed_only(previous, force) ==
    IF force THEN FALSE
    ELSE IF previous = NoRecord THEN FALSE
    ELSE ~is_failed_or_incomplete(previous)

\* ------------------------------------------------------------------------
\* Inputs of a content pass
\* ------------------------------------------------------------------------
UrlTexts == {<<"b">>, <<"a", "b">>}

\* Largest number of entries of a row's source_urls.
MaxUrls == 2

RowUrlLists == SeqsUpTo(UrlTexts, MaxUrls)

\* --polish-mode and whether an OpenAI key is given.
PolishSettings == {"auto", "openai", "codex", "none"} \X BOOLEAN

ContentArgs ==
    {[failed_only |-> fo, force |-> f, min_refresh_days |-> d, polish_mode |-> pm[1],
      api_key |-> pm[2], download_images |-> TRUE, max_source_urls_per_event |-> 3] :
        fo \in BOOLEAN, f \in BOOLEAN, d \in {0, 2}, pm \in PolishSettings}

\* Records a reuse left behind: status cached, with or without the
\* polish_error of a failed upgrade.
CachedRecords ==
    {Rec(source_signature(<<<<"a", "b">>, <<"b">>>>), 2, desc, images, mode, i18n, "cached", err) :
        desc \in BOOLEAN, images \in BOOLEAN, mode \in {"none", "openai"},
        i18n \in BOOLEAN, err \in {"", "polish_error"}}

\* Records whose polished_description or one_liner is empty.
NoJaRecords ==
    {[Rec(source_signature(<<<<"a", "b">>, <<"b">>>>), 2, desc, TRUE, "none", i18n, "ok", "")
         EXCEPT !.has_ja = FALSE] : desc \in BOOLEAN, i18n \in BOOLEAN}

\* The previous records resolve_previous_record may return.
PreviousRecords ==
    {NoRecord} \cup
    {Rec(s, age, desc, images, mode, i18n, st, IF st = "partial" THEN "fetch_error" ELSE "") :
        s \in {source_signature(<<>>), source_signature(<<<<"a", "b">>, <<"b">>>>), NoSig},
        age \in {NoDate, 0, 2, 3},
        desc \in BOOLEAN, images \in BOOLEAN,
        mode \in {"none", "openai", "codex"},
        i18n \in BOOLEAN,
        st \in {"ok", "partial"}}
    \cup CachedRecords \cup NoJaRecords

NoRequests == [page_fetches |-> 0, image_downloads |-> 0, model_requests |-> 0]

InitContent ==
    /\ content_pc = "sig"
    /\ args \in ContentArgs
    /\ row_source_urls \in RowUrlLists
    /\ old \in PreviousRecords
    /\ source_urls = <<>>
    /\ sig = NoSig
    /\ record = NoRecord
    /\ http = NoRequests
    /\ FusionIdle
    /\ VoteIdle
    /\ StageIdle
    /\ ExportIdle
    /\ GeohashIdle
    /\ NetworkIdle
    /\ CodexIdle
    /\ ScoreIdle
    /\ ImagesIdle

\* Lines 1808-1810: source_urls, sig (old is resolved from the previous
\* run's records).
ComputeSignature ==
    /\ content_pc = "sig"
    /\ source_urls' = parse_source_urls(row_source_urls)
    /\ sig' = source_signature(parse_source_urls(row_source_urls))
    /\ content_pc' = "decide"
    /\ UNCHANGED <<args, row_source_urls, old, record, http>>
    /\ UNCHANGED NotContent

\* Lines 1814-1832: failed-only mode reuses a successful previous record.
ReuseFailedOnly ==
    /\ content_pc = "decide"
    /\ args.failed_only /\ should_reuse_success_in_failed_only(old, args.force)
    /\ record' = [old EXCEPT !.source_urls_sig = sig, !.status = "cached", !.error = ""]
    /\ content_pc' = "done"
    /\ UNCHANGED <<args, row_source_urls, source_urls, sig, old, http>>
    /\ UNCHANGED NotContent

\* What the polisher's calls may come to: polish_bundle answers in full
\* (one call), polish_bundle and translate_pair answer (two calls),
\* translate_pair raises (two calls), polish_bundle raises (one call).
PolishOutcomes ==
    {[raised |-> "", calls |-> 1], [raised |-> "", calls |-> 2],
     [raised |-> "translate", calls |-> 2], [raised |-> "bundle", calls |-> 1]}

\* Lines 1834-1939: a fresh previous record is reused, its polish upgraded
\* when a polisher is configured and the record was polished otherwise.
ReuseFresh ==
    /\ content_pc = "decide"
    /\ ~(args.failed_only /\ should_reuse_success_in_failed_only(old, args.force))
    /\ ~args.failed_only
    /\ is_recent_enough(old, sig, args.min_refresh_days, args.force)
    /\ LET reused == [old EXCEPT !.source_urls_sig = sig, !.error = ""]
           raw_cached == old.raw_description
           should_upgrade_openai ==
               Polisher(args) = "openai" /\ raw_cached /\ old.polish_mode # "openai"
           should_upgrade_codex ==
               /\ Polisher(args) = "codex"
               /\ raw_cached
               /\ (old.polish_mode # "codex" \/ ~old.has_i18n)
       IN IF should_upgrade_openai \/ should_upgrade_codex
          THEN \E out \in PolishOutcomes :
                 /\ record' = IF out.raised = ""
                              THEN [reused EXCEPT !.polish_mode = Polisher(args),
                                                  !.has_i18n = TRUE, !.status = "ok"]
                              ELSE [reused EXCEPT !.status = "cached", !.error = "polish_error"]
                 /\ http' = [http EXCEPT !.model_requests = @ + out.calls]
          ELSE /\ record' = [reused EXCEPT !.status = "cached"]
               /\ http' = http
    /\ content_pc' = "done"
    /\ UNCHANGED <<args, row_source_urls, source_urls, sig, old>>
    /\ UNCHANGED NotContent

\* What the pages of the selected urls may yield: a description, images,
\* a fetch error.
FetchOutcomes(n) ==
    IF n = 0 THEN {[desc |-> FALSE, images |-> FALSE, error |-> ""]}
    ELSE {[desc |-> FALSE, images |-> FALSE, error |-> "fetch_error"],
          [desc |-> FALSE, images |-> FALSE, error |-> ""],
          [desc |-> TRUE, images |-> TRUE, error |-> ""],
          [desc |-> TRUE, images |-> FALSE, error |-> ""],
          [desc |-> FALSE, images |-> TRUE, error |-> ""]}
         \cup (IF n >= 2 THEN {[desc |-> TRUE, images |-> FALSE, error |-> "fetch_error"]}
               ELSE {})

\* A variant that gives status ok whatever the error.
fetch_status_ignoring_error(raw_description, image_urls, fetch_error) ==
    IF ~raw_description /\ ~image_urls THEN "empty" ELSE "ok"

\* Lines 2067-2071: the status of a fetched record.
fetch_status(raw_description, image_urls, fetch_error) ==
    IF ~raw_description /\ ~image_urls THEN "empty"
    ELSE IF fetch_error # "" THEN "partial"
    ELSE "ok"

\* Lines 1941-2110: the pages are fetched, the description polished, the
\* images downloaded, the record built.
FetchEvent ==
    /\ content_pc = "decide"
    /\ ~(args.failed_only /\ should_reuse_success_in_failed_only(old, args.force))
    /\ ~(~args.failed_only /\ is_recent_enough(old, sig, args.min_refresh_days, args.force))
    /\ LET selected_urls ==
               SubSeq(source_urls, 1,
                      Min(Len(source_urls), Max(1, args.max_source_urls_per_event)))
       IN \E page \in FetchOutcomes(Len(selected_urls)) :
            \E out \in (IF page.desc /\ Polisher(args) # "none"
                        THEN PolishOutcomes
                        ELSE {[raised |-> "none", calls |-> 0]}) :
              LET fetch_error ==
                      IF out.raised = "bundle" THEN "polish_error"
                      ELSE IF out.raised = "translate" THEN "translate_error"
                      ELSE page.error
                  polish_mode_used ==
                      IF out.raised = "none" THEN "none"
                      ELSE IF out.raised = "bundle" THEN Polisher(args) \o "_failed"
                      ELSE Polisher(args)
                  status == fetch_status(page.desc, page.images, fetch_error)
              IN /\ record' = [Rec(sig, 0, page.desc, page.images, polish_mode_used,
                                   out.raised = "", status, fetch_error)
                                  EXCEPT !.has_ja = page.desc]
                 /\ http' = [page_fetches |-> Len(selected_urls),
                             image_downloads |->
                                 IF page.images /\ args.download_images THEN 1 ELSE 0,
                             model_requests |-> out.calls]
    /\ content_pc' = "done"
    /\ UNCHANGED <<args, row_source_urls, source_urls, sig, old>>
    /\ UNCHANGED NotContent

NextContent ==
    \/ ComputeSignature
    \/ ReuseFailedOnly
    \/ ReuseFresh
    \/ FetchEvent

SpecContent == InitContent /\ [][NextContent]_vars

TypeOKContent == content_pc \in {"sig", "decide", "done"}

\* ------------------------------------------------------------------------
\* Properties of a content pass
\* ------------------------------------------------------------------------
\* The orderings of a list.
Orderings(urls) ==
    {[i \in 1..Len(urls) |-> urls[f[i]]] :
        f \in {g \in [1..Len(urls) -> 1..Len(urls)] :
                 \A i, j \in 1..Len(urls) : g[i] = g[j] => i = j}}

\* The ordering of a list in which no entry is followed by a smaller one.
Ascending(urls) ==
    CHOOSE p \in Orderings(urls) : \A i \in 1..(Len(p) - 1) : ~StrLess(p[i + 1], p[i])

RECURSIVE JoinLF(_)
\* join("\n", urls)
JoinLF(urls) ==
    IF urls = <<>> THEN <<>>
    ELSE IF Len(urls) = 1 THEN Head(urls)
    ELSE Head(urls) \o <<LF>> \o JoinLF(Tail(urls))

\* sha256(join("\n", sorted(source_urls)) + "\n")
StatedSignature(urls) == Sha256(JoinLF(Ascending(urls)) \o <<LF>>)

\* C9 as stated: for every list of source URLs, the empty list included,
\* source_urls_sig is the SHA-256 of join("\n", sorted(urls)) + "\n".
C9_AsStated == (content_pc # "sig") => sig = StatedSignature(source_urls)

\* C9 amended: for every non-empty list of source URLs source_urls_sig is
\* the SHA-256 of join("\n", sorted(urls)) + "\n", for the empty list it is
\* the SHA-256 of the empty byte string, and the signature is the same for
\* every order of the URLs.
C9_Amended ==
    (content_pc # "sig") =>
        /\ source_urls # <<>> => sig = StatedSignature(source_urls)
        /\ source_urls = <<>> => sig = Sha256(<<>>)
        /\ \A p \in Orderings(source_urls) : source_signature(p) = sig

\* The signature of two URLs given in descending order has been taken.
C9_Witness ==
    /\ content_pc # "sig"
    /\ Len(source_urls) = 2
    /\ StrLess(source_urls[2], source_urls[1])

\* The reuse precondition of C10: not failed_only, force off, a previous
\* record of equal signature, fetched within min_refresh_days, with a
\* description or an image.
FreshPrevious ==
    /\ ~args.failed_only
    /\ ~args.force
    /\ old # NoRecord
    /\ old.source_urls_sig = sig
    /\ old.fetched_at # NoDate
    /\ old.fetched_at <= args.min_refresh_days
    /\ (old.raw_description \/ old.image_urls)

\* C10 as stated: under the reuse precondition the run emits the previous
\* record with status = cached and makes no request for the event: no page
\* fetch, no image download, no model request.
C10_AsStated ==
    (content_pc = "done" /\ FreshPrevious) =>
        /\ record = [old EXCEPT !.status = "cached", !.error = ""]
        /\ http = NoRequests

\* The polish of a reused record is upgraded: a polisher is configured, the
\* record has a raw description, and it was not polished by that polisher
\* (for codex: or its zh or en texts are incomplete).
UpgradeDue ==
    /\ old.raw_description
    /\ \/ Polisher(args) = "openai" /\ old.polish_mode # "openai"
       \/ Polisher(args) = "codex" /\ (old.polish_mode # "codex" \/ ~old.has_i18n)

\* C10 amended: under the reuse precondition the run makes no page fetch
\* and no image download for the event and emits the previous record, its
\* description, images and fetched_at kept; unless a polish upgrade is due
\* it makes no model request and the status is cached; when an upgrade is
\* due it makes at least one model request, and the status is ok with the
\* polish replaced when the polisher answers, cached with a polish_error
\* when it raises.
C10_Amended ==
    (content_pc = "done" /\ FreshPrevious) =>
        /\ http.page_fetches = 0
        /\ http.image_downloads = 0
        /\ record.raw_description = old.raw_description
        /\ record.image_urls = old.image_urls
        /\ record.fetched_at = old.fetched_at
        /\ record.source_urls_sig = sig
        /\ ~UpgradeDue =>
               /\ http.model_requests = 0
               /\ record = [old EXCEPT !.status = "cached", !.error = ""]
        /\ UpgradeDue =>
               /\ http.model_requests >= 1
               /\ \/ /\ record.status = "ok"
                     /\ record.error = ""
                     /\ record.polish_mode = Polisher(args)
                  \/ /\ record.status = "cached"
                     /\ record.error = "polish_error"
                     /\ record.polish_mode = old.polish_mode

\* A record exactly min_refresh_days old has been reused with a polish
\* upgrade of two model requests and no other request.
C10_Witness ==
    /\ content_pc = "done"
    /\ FreshPrevious
    /\ old.fetched_at = args.min_refresh_days
    /\ args.min_refresh_days > 0
    /\ source_urls # <<>>
    /\ UpgradeDue
    /\ record.status = "ok"
    /\ http = [page_fetches |-> 0, image_downloads |-> 0, model_requests |-> 2]

\* ---------------------------------------------------------------------
\* C11: reuse in failed_only mode
\* ---------------------------------------------------------------------

FailedOnlyRun == content_pc = "done" /\ args.failed_only /\ ~args.force

\* The record was taken over from the previous one without any request.
ReusedWithoutRequests ==
    /\ record = [old EXCEPT !.source_urls_sig = sig, !.status = "cached", !.error = ""]
    /\ http = NoRequests

\* The record was built by the fetch path: a page fetch for every selected
\* url, and a status of ok, partial or empty.
Refetched ==
    /\ record.status \in {"ok", "partial", "empty"}
    /\ record.fetched_at = 0
    /\ http.page_fetches =
           Min(Len(source_urls), Max(1, args.max_source_urls_per_event))

\* A good success in the claim's words: status ok or cached, a raw
\* description, description and one-liner present in ja, zh and en.
GoodSuccessStated ==
    /\ old # NoRecord
    /\ old.status \in {"ok", "cached"}
    /\ old.raw_description
    /\ old.has_ja /\ old.has_i18n

\* C11 as stated: in failed_only mode with force off the previous record
\* is reused exactly when it is a good success (status ok or cached, raw
\* description, all three languages); a reused record has status cached,
\* an empty error and cost no request; every other event is fetched again.
C11_AsStated ==
    FailedOnlyRun =>
        /\ GoodSuccessStated => ReusedWithoutRequests
        /\ ~GoodSuccessStated => Refetched

\* What the code takes for a success: a previous record whose status is
\* none of partial, empty, openai_failed, codex_failed, whose error is
\* empty, which has a raw description or an image, and which, when it has
\* a raw description, has its texts in all three languages.
Reusable ==
    /\ old # NoRecord
    /\ old.status \notin {"partial", "empty", "openai_failed", "codex_failed"}
    /\ old.error = ""
    /\ (old.raw_description \/ old.image_urls)
    /\ old.raw_description => (old.has_ja /\ old.has_i18n)

\* C11 amended: in failed_only mode with force off the previous record is
\* reused exactly when its status is not a failure status, its error is
\* empty, it has a raw description or an image, and a record with a raw
\* description has all three languages; a reused record has status cached,
\* an empty error and cost no request; every other event is fetched again.
C11_Amended ==
    FailedOnlyRun =>
        /\ Reusable => ReusedWithoutRequests
        /\ ~Reusable => Refetched

\* An image-only record without a raw description has been reused.
C11_Witness ==
    /\ FailedOnlyRun
    /\ old # NoRecord
    /\ ~old.raw_description /\ old.image_urls
    /\ ReusedWithoutRequests
    /\ record.status = "cached"
    /\ source_urls # <<>>

\* A cached record with a description in all three languages, left with a
\* polish_error by a failed upgrade, has been fetched again.
C11_WitnessRefetch ==
    /\ FailedOnlyRun
    /\ GoodSuccessStated
    /\ old.error = "polish_error"
    /\ Refetched
    /\ http.page_fetches >= 1

\* ---------------------------------------------------------------------
\* C12: the polisher a polish mode selects
\* ---------------------------------------------------------------------

\* The event was fetched and a description extracted, so the polisher, if
\* any, was called.
FetchedWithDescription ==
    /\ content_pc = "done"
    /\ http.page_fetches >= 1
    /\ record.raw_description

\* The backend seen at work: the record's polish_mode is the backend's
\* name, or that name with _failed, and model requests were made exactly
\* when there is a backend.
BackendInUse(b) ==
    /\ record.polish_mode \in {b, b \o "_failed"}
    /\ (http.model_requests = 0) <=> (b = "none")

\* The backend the claim names for a mode and a key.
StatedBackend ==
    IF args.polish_mode = "auto"
    THEN (IF args.api_key THEN "openai" ELSE "codex")
    ELSE args.polish_mode

\* C12 as stated: mode auto uses the openai backend when an API key is
\* present and the codex backend when none is; modes openai, codex and
\* none use exactly that backend (none: no polisher).
C12_AsStated == FetchedWithDescription => BackendInUse(StatedBackend)

\* The backend the code builds: openai needs a key, codex is built only
\* for mode codex.
BuiltBackend ==
    IF args.polish_mode = "codex" THEN "codex"
    ELSE IF args.polish_mode \in {"auto", "openai"} /\ args.api_key THEN "openai"
    ELSE "none"

\* C12 amended: modes auto and openai use the openai backend when an API
\* key is present and no polisher when none is; mode codex uses the codex
\* backend with or without a key; mode none uses no polisher.
C12_Amended == FetchedWithDescription => BackendInUse(BuiltBackend)

\* Mode auto without a key has fetched an event with a description and
\* left it unpolished, without a model request.
C12_Witness ==
    /\ FetchedWithDescription
    /\ args.polish_mode = "auto"
    /\ ~args.api_key
    /\ record.polish_mode = "none"
    /\ http.model_requests = 0

\* ---------------------------------------------------------------------
\* C13: a polisher failure on a fetched event
\* ---------------------------------------------------------------------

\* The event was fetched and polish_bundle raised.
PolishFailedOnFetch ==
    /\ content_pc = "done"
    /\ http.page_fetches >= 1
    /\ http.model_requests >= 1
    /\ record.error = "polish_error"

MaxStageRows == 3

\* (start_date - today).days of a row whose event_date_start does not parse.
NoDelta == 99999

\* --skip-past-days, default.
SkipPastDays == 31

\* A fused row as the stages order it: canonical_id and event_name stand
\* for their rank in string order, delta is the distance of the start
\* date from today in days, reusable is
\* should_reuse_success_in_failed_only(old, force) of its previous record.
StageRow(id, name, delta, reusable) ==
    [canonical_id |-> id, event_name |-> name, delta |-> delta, reusable |-> reusable]

StageRowKinds ==
    {StageRow(2, 1, 2, FALSE), StageRow(1, 2, -1, FALSE),
     StageRow(1, 1, NoDelta, TRUE), StageRow(2, 2, -40, FALSE)}

StageRowLists == UNION {[1..n -> StageRowKinds] : n \in 0..MaxStageRows}

\* Python's tuple "<" on keys of equal length.
KeyLess(a, b) ==
    \E i \in 1..Len(a) : a[i] < b[i] /\ \A j \in 1..(i - 1) : a[j] = b[j]

RECURSIVE InsertByKey(_, _)
InsertByKey(x, xs) ==
    IF xs = <<>> THEN <<x>>
    ELSE IF KeyLess(x.key, Head(xs).key) THEN <<x>> \o xs
    ELSE <<Head(xs)>> \o InsertByKey(x, Tail(xs))

RECURSIVE SortByKey(_)
\* list.sort(key=...): stable, ascending.
SortByKey(items) ==
    IF items = <<>> THEN <<>>
    ELSE InsertByKey(items[Len(items)], SortByKey(SubSeq(items, 1, Len(items) - 1)))

Unkeyed(items) == [i \in 1..Len(items) |-> items[i].row]

\* sort_key of run_project, lines 1656-1666.
content_sort_key(row, idx, a) ==
    LET work_rank == IF row.reusable /\ a.failed_only THEN 1 ELSE 0
    IN IF row.delta = NoDelta THEN <<work_rank, 2, 36500, idx>>
       ELSE IF row.delta >= 0 THEN <<work_rank, 0, row.delta, idx>>
       ELSE <<work_rank, 1, -row.delta, idx>>

\* Lines 1618-1679 of run_project: the skip_past_days filter
\* (only_past_days off), the near-start prioritisation, the slice.
content_select(fused, a) ==
    LET filtered == SelectSeq(fused, LAMBDA r : ~(r.delta # NoDelta /\ r.delta < -SkipPastDays))
        sorted ==
            IF a.prioritize_near_start /\ filtered # <<>>
            THEN Unkeyed(SortByKey([i \in 1..Len(filtered) |->
                     [key |-> content_sort_key(filtered[i], i - 1, a), row |-> filtered[i]]]))
            ELSE filtered
        slice_start == Max(0, a.start_index)
        slice_end == IF a.max_events > 0 THEN Min(Len(sorted), slice_start + a.max_events)
                     ELSE Len(sorted)
    IN SubSeq(sorted, slice_start + 1, slice_end)

\* estimate_start_distance_days followed by the event name, lines 660-667
\* of the score main.
score_sort_key(row) ==
    IF row.delta = NoDelta THEN <<1, 10000000, row.event_name>>
    ELSE <<0, IF row.delta < 0 THEN -row.delta ELSE row.delta, row.event_name>>

\* items of the score main, lines 652-667.
score_items(fused, a) ==
    IF a.prioritize_near_start
    THEN Unkeyed(SortByKey([i \in 1..Len(fused) |->
             [key |-> score_sort_key(fused[i]), row |-> fused[i]]]))
    ELSE fused

\* A variant that leaves out_rows in processing order.
sort_out_rows_skipped(rows_) == rows_

\* out_rows.sort of the score main, line 830.
sort_out_rows(rows_) ==
    Unkeyed(SortByKey([i \in 1..Len(rows_) |->
        [key |-> <<rows_[i].canonical_id, rows_[i].event_name>>, row |-> rows_[i]]]))

\* A run directory: the canonical ids in its JSONL, whether the JSONL and
\* the CSV (in the content stage: the CSV and the log) are absent, open or
\* closed, and whether its summary is absent, left over from an earlier run
\* into the same directory, or written by the run that wrote the JSONL.
RunDir(exists, jsonl, jsonl_state, csv_state, summary) ==
    [exists |-> exists, jsonl |-> jsonl, jsonl_state |-> jsonl_state,
     csv_state |-> csv_state, summary |-> summary]

NoRunDir == RunDir(FALSE, <<>>, "none", "none", "none")

\* open(path, "w") on the files of a run directory.
Truncated(d) ==
    RunDir(TRUE, <<>>, "open", d.csv_state, IF d.summary = "none" THEN "none" ELSE "stale")

RunIds == {"r1", "r2"}

\* The arguments of a stage and what it finds on disk.
StageConfigs ==
    {[stage |-> "content", prompt_exists |-> pe, has_fused |-> hf, geohash_precision |-> 5,
      run_id |-> id, update_latest_run |-> ul, prioritize_near_start |-> pn,
      failed_only |-> fo, start_index |-> si, max_events |-> me, rows |-> rs] :
        pe \in BOOLEAN, hf \in BOOLEAN, id \in RunIds, ul \in BOOLEAN, pn \in BOOLEAN,
        fo \in BOOLEAN, si \in {0, 1}, me \in {0, 1}, rs \in StageRowLists}
    \cup
    {[stage |-> "score", prompt_exists |-> pe, has_fused |-> hf, geohash_precision |-> 5,
      run_id |-> id, update_latest_run |-> ul, prioritize_near_start |-> pn,
      failed_only |-> TRUE, start_index |-> 0, max_events |-> 0, rows |-> rs] :
        pe \in BOOLEAN, hf \in BOOLEAN, id \in RunIds, ul \in BOOLEAN, pn \in BOOLEAN,
        rs \in StageRowLists}
    \cup
    {[stage |-> "export", prompt_exists |-> TRUE, has_fused |-> TRUE, geohash_precision |-> gp,
      run_id |-> "r2", update_latest_run |-> FALSE, prioritize_near_start |-> FALSE,
      failed_only |-> FALSE, start_index |-> 0, max_events |-> 0, rows |-> <<>>] :
        gp \in {2, 3, 8, 9}}

\* Before the run: run r1 is complete on disk, r2 does not exist, and
\* latest_run.json names r1 or no run of this stage.
InitStage ==
    /\ FusionIdle
    /\ VoteIdle
    /\ ContentIdle
    /\ ExportIdle
    /\ GeohashIdle
    /\ NetworkIdle
    /\ CodexIdle
    /\ ScoreIdle
    /\ ImagesIdle
    /\ cfg \in StageConfigs
    /\ stage = cfg.stage
    /\ stage_pc = "main"
    /\ stage_rows = <<>>
    /\ row_i = 1
    /\ out_rows = <<>>
    /\ run_dirs = [id \in RunIds |->
                      IF id = "r1" THEN RunDir(TRUE, <<1, 2>>, "closed", "closed", "written")
                      ELSE NoRunDir]
    /\ latest_run \in {"r1", ""}
    /\ created = {}
    /\ raised = ""

\* Content main, lines 2292-2300: both templates are read before any
\* project is run.
ContentMain ==
    /\ stage = "content" /\ stage_pc = "main"
    /\ IF ~cfg.prompt_exists
       THEN stage_pc' = "raised" /\ raised' = "FileNotFoundError: prompt template"
       ELSE stage_pc' = "project" /\ raised' = raised
    /\ UNCHANGED <<stage, cfg, stage_rows, row_i, out_rows, run_dirs, latest_run, created>>
    /\ UNCHANGED NotStage

\* run_project, lines 1607-1679: no fused run, or the selected rows.
ContentSelect ==
    /\ stage = "content" /\ stage_pc = "project"
    /\ IF ~cfg.has_fused
       THEN stage_pc' = "skipped" /\ stage_rows' = stage_rows
       ELSE stage_pc' = "open" /\ stage_rows' = content_select(cfg.rows, cfg)
    /\ UNCHANGED <<stage, cfg, row_i, out_rows, run_dirs, latest_run, created, raised>>
    /\ UNCHANGED NotStage

\* Lines 1735-1775: the run directory is made, the JSONL, the CSV and the
\* log are opened for writing and the headers written.
ContentOpen ==
    /\ stage = "content" /\ stage_pc = "open"
    /\ run_dirs' = [run_dirs EXCEPT ![cfg.run_id] = [Truncated(@) EXCEPT !.csv_state = "open"]]
    /\ created' = created \cup {"run_dir", "jsonl", "csv", "log"}
    /\ row_i' = 1
    /\ stage_pc' = "loop"
    /\ UNCHANGED <<stage, cfg, stage_rows, out_rows, latest_run, raised>>
    /\ UNCHANGED NotStage

\* persist_record for the next row of the loop, lines 1777-1782.
ContentPersist ==
    /\ stage = "content" /\ stage_pc = "loop"
    /\ row_i <= Len(stage_rows)
    /\ run_dirs' = [run_dirs EXCEPT ![cfg.run_id].jsonl =
                        Append(@, stage_rows[row_i].canonical_id)]
    /\ row_i' = row_i + 1
    /\ UNCHANGED <<stage, stage_pc, cfg, stage_rows, out_rows, latest_run, created, raised>>
    /\ UNCHANGED NotStage

\* Lines 2116-2118: the three files are closed.
ContentClose ==
    /\ stage = "content" /\ stage_pc = "loop"
    /\ row_i > Len(stage_rows)
    /\ run_dirs' = [run_dirs EXCEPT ![cfg.run_id].jsonl_state = "closed",
                                    ![cfg.run_id].csv_state = "closed"]
    /\ stage_pc' = "summary"
    /\ UNCHANGED <<stage, cfg, stage_rows, row_i, out_rows, latest_run, created, raised>>
    /\ UNCHANGED NotStage

\* Lines 2125-2160: the summary is written and the four files are copied
\* to the latest directory.
ContentSummary ==
    /\ stage = "content" /\ stage_pc = "summary"
    /\ run_dirs' = [run_dirs EXCEPT ![cfg.run_id].summary = "written"]
    /\ created' = created \cup {"summary", "latest_dir"}
    /\ stage_pc' = "latest"
    /\ UNCHANGED <<stage, cfg, stage_rows, row_i, out_rows, latest_run, raised>>
    /\ UNCHANGED NotStage

\* Lines 2162-2169: latest_path.write_text opens latest_run.json for
\* writing; until the text is written the file holds no readable JSON.
ContentLatestOpen ==
    /\ stage = "content" /\ stage_pc = "latest"
    /\ IF cfg.update_latest_run
       THEN /\ latest_run' = "torn"
            /\ created' = created \cup {"latest_run"}
            /\ stage_pc' = "latest_write"
       ELSE /\ UNCHANGED <<latest_run, created>>
            /\ stage_pc' = "done"
    /\ UNCHANGED <<stage, cfg, stage_rows, row_i, out_rows, run_dirs, raised>>
    /\ UNCHANGED NotStage

ContentLatestWritten ==
    /\ stage = "content" /\ stage_pc = "latest_write"
    /\ latest_run' = cfg.run_id
    /\ stage_pc' = "done"
    /\ UNCHANGED <<stage, cfg, stage_rows, row_i, out_rows, run_dirs, created, raised>>
    /\ UNCHANGED NotStage

\* Score main, lines 629-641: the fused run id is resolved and the run
\* directory made.
ScoreMain ==
    /\ stage = "score" /\ stage_pc = "main"
    /\ IF ~cfg.has_fused
       THEN /\ stage_pc' = "raised"
            /\ raised' = "RuntimeError: fused_run_id is missing"
            /\ UNCHANGED <<run_dirs, created>>
       ELSE /\ run_dirs' = [run_dirs EXCEPT ![cfg.run_id].exists = TRUE]
            /\ created' = created \cup {"run_dir"}
            /\ stage_pc' = "prompt"
            /\ raised' = raised
    /\ UNCHANGED <<stage, cfg, stage_rows, row_i, out_rows, latest_run>>
    /\ UNCHANGED NotStage

\* Lines 643-667: the prompt file is read, the rows loaded and ordered.
ScorePrompt ==
    /\ stage = "score" /\ stage_pc = "prompt"
    /\ IF ~cfg.prompt_exists
       THEN /\ stage_pc' = "raised"
            /\ raised' = "FileNotFoundError: prompt file"
            /\ stage_rows' = stage_rows
       ELSE /\ stage_pc' = "loop"
            /\ raised' = raised
            /\ stage_rows' = score_items(cfg.rows, cfg)
    /\ row_i' = 1
    /\ UNCHANGED <<stage, cfg, out_rows, run_dirs, latest_run, created>>
    /\ UNCHANGED NotStage

\* Lines 699-824: one out row for the next item.
ScoreItem ==
    /\ stage = "score" /\ stage_pc = "loop"
    /\ row_i <= Len(stage_rows)
    /\ out_rows' = Append(out_rows, stage_rows[row_i])
    /\ row_i' = row_i + 1
    /\ UNCHANGED <<stage, stage_pc, cfg, stage_rows, run_dirs, latest_run, created, raised>>
    /\ UNCHANGED NotStage

\* Lines 829-833: out_rows is sorted and the JSONL opened for writing.
ScoreOpenJsonl ==
    /\ stage = "score" /\ stage_pc = "loop"
    /\ row_i > Len(stage_rows)
    /\ out_rows' = sort_out_rows(out_rows)
    /\ run_dirs' = [run_dirs EXCEPT ![cfg.run_id] = Truncated(@)]
    /\ created' = created \cup {"jsonl"}
    /\ row_i' = 1
    /\ stage_pc' = "jsonl"
    /\ UNCHANGED <<stage, cfg, stage_rows, latest_run, raised>>
    /\ UNCHANGED NotStage

\* Lines 834-835: one line of the JSONL.
ScoreWriteRow ==
    /\ stage = "score" /\ stage_pc = "jsonl"
    /\ row_i <= Len(out_rows)
    /\ run_dirs' = [run_dirs EXCEPT ![cfg.run_id].jsonl = Append(@, out_rows[row_i].canonical_id)]
    /\ row_i' = row_i + 1
    /\ UNCHANGED <<stage, stage_pc, cfg, stage_rows, out_rows, latest_run, created, raised>>
    /\ UNCHANGED NotStage

\* The JSONL is closed and the CSV opened for writing, lines 833-855.
ScoreOpenCsv ==
    /\ stage = "score" /\ stage_pc = "jsonl"
    /\ row_i > Len(out_rows)
    /\ run_dirs' = [run_dirs EXCEPT ![cfg.run_id].jsonl_state = "closed",
                                    ![cfg.run_id].csv_state = "open"]
    /\ created' = created \cup {"csv"}
    /\ stage_pc' = "csv"
    /\ UNCHANGED <<stage, cfg, stage_rows, row_i, out_rows, latest_run, raised>>
    /\ UNCHANGED NotStage

\* Lines 856-861: the rows of the CSV are written and the file closed.
ScoreCloseCsv ==
    /\ stage = "score" /\ stage_pc = "csv"
    /\ run_dirs' = [run_dirs EXCEPT ![cfg.run_id].csv_state = "closed"]
    /\ stage_pc' = "summary"
    /\ UNCHANGED <<stage, cfg, stage_rows, row_i, out_rows, latest_run, created, raised>>
    /\ UNCHANGED NotStage

\* Lines 863-884: the summary is written.
ScoreSummary ==
    /\ stage = "score" /\ stage_pc = "summary"
    /\ run_dirs' = [run_dirs EXCEPT ![cfg.run_id].summary = "written"]
    /\ created' = created \cup {"summary"}
    /\ stage_pc' = "latest"
    /\ UNCHANGED <<stage, cfg, stage_rows, row_i, out_rows, latest_run, raised>>
    /\ UNCHANGED NotStage

\* upsert_latest_run, lines 619-626, called at 886-892: write_text opens
\* latest_run.json for writing, then writes the text.
ScoreLatestOpen ==
    /\ stage = "score" /\ stage_pc = "latest"
    /\ IF cfg.update_latest_run
       THEN /\ latest_run' = "torn"
            /\ created' = created \cup {"latest_run"}
            /\ stage_pc' = "latest_write"
       ELSE /\ UNCHANGED <<latest_run, created>>
            /\ stage_pc' = "done"
    /\ UNCHANGED <<stage, cfg, stage_rows, row_i, out_rows, run_dirs, raised>>
    /\ UNCHANGED NotStage

ScoreLatestWritten ==
    /\ stage = "score" /\ stage_pc = "latest_write"
    /\ latest_run' = cfg.run_id
    /\ stage_pc' = "done"
    /\ UNCHANGED <<stage, cfg, stage_rows, row_i, out_rows, run_dirs, created, raised>>
    /\ UNCHANGED NotStage

\* Export main, lines 904-910: the geohash precision is checked first.
ExportMain ==
    /\ stage = "export" /\ stage_pc = "main"
    /\ IF cfg.geohash_precision < 3 \/ cfg.geohash_precision > 8
       THEN stage_pc' = "raised" /\ raised' = "ValueError: geohash-precision"
       ELSE stage_pc' = "build" /\ raised' = raised
    /\ UNCHANGED <<stage, cfg, stage_rows, row_i, out_rows, run_dirs, latest_run, created>>
    /\ UNCHANGED NotStage

\* Export main, lines 1024-1036: the output directories are made and the
\* index, the payload and the image payload written.
ExportWrite ==
    /\ stage = "export" /\ stage_pc = "build"
    /\ created' = created \cup {"output_dir", "index", "payload", "image_payload"}
    /\ stage_pc' = "done"
    /\ UNCHANGED <<stage, cfg, stage_rows, row_i, out_rows, run_dirs, latest_run, raised>>
    /\ UNCHANGED NotStage

NextStage ==
    \/ ContentMain
    \/ ContentSelect
    \/ ContentOpen
    \/ ContentPersist
    \/ ContentClose
    \/ ContentSummary
    \/ ContentLatestOpen
    \/ ContentLatestWritten
    \/ ScoreMain
    \/ ScorePrompt
    \/ ScoreItem
    \/ ScoreOpenJsonl
    \/ ScoreWriteRow
    \/ ScoreOpenCsv
    \/ ScoreCloseCsv
    \/ ScoreSummary
    \/ ScoreLatestOpen
    \/ ScoreLatestWritten
    \/ ExportMain
    \/ ExportWrite

SpecStage == InitStage /\ [][NextStage]_vars

\* ------------------------------------------------------------------------
\* Properties of a stage run
\* ------------------------------------------------------------------------

\* ---------------------------------------------------------------------
\* C14: configuration errors and I/O
\* ---------------------------------------------------------------------

ConfigurationError ==
    /\ stage_pc = "raised"
    /\ raised \in {"FileNotFoundError: prompt template", "FileNotFoundError: prompt file",
                   "ValueError: geohash-precision"}

\* C14 as stated: when a missing prompt file (content stage, score stage)
\* or a geohash precision outside 3..8 (export stage) is raised, the stage
\* has created or written no directory and no file.
C14_AsStated == ConfigurationError => created = {}

\* The same for the content stage and the export stage alone.
C14_ContentAndExport ==
    (ConfigurationError /\ stage \in {"content", "export"}) => created = {}

\* A content run has ended on a missing template and an export run on a
\* precision out of range.
C14_ContentAndExportReached ==
    /\ ConfigurationError
    /\ stage = "export"
    /\ cfg.geohash_precision = 9

\* ---------------------------------------------------------------------
\* C15: latest_run.json is written last
\* ---------------------------------------------------------------------

\* A run directory whose JSONL, CSV, log and summary are written and closed.
Complete(d) ==
    /\ d.exists
    /\ d.jsonl_state = "closed"
    /\ d.csv_state = "closed"
    /\ d.summary = "written"

\* C15 as stated: at every point of a content or score run, a run id
\* readable from latest_run.json names a complete run directory.
C15_AsStated ==
    (stage \in {"content", "score"} /\ latest_run \in RunIds) =>
        Complete(run_dirs[latest_run])

\* The step that makes latest_run.json name the run is taken only when the
\* run's directory is complete.
C15_NamedOnlyWhenComplete ==
    [][(latest_run' # latest_run /\ latest_run' \in RunIds) =>
          (latest_run' = cfg.run_id /\ Complete(run_dirs[cfg.run_id]))]_vars

\* ---------------------------------------------------------------------
\* C16: the order of the output JSONL
\* ---------------------------------------------------------------------

Ids(rows_) == [i \in 1..Len(rows_) |-> rows_[i].canonical_id]

\* The run has closed its JSONL.
JsonlClosed ==
    /\ stage \in {"content", "score"}
    /\ stage_pc \in {"csv", "summary", "latest", "latest_write", "done"}

\* C16 as stated: in the content stage and in the score stage the records
\* of the output JSONL are in processing order: the order of the rows after
\* filtering and optional near-start prioritisation.
C16_AsStated == JsonlClosed => run_dirs[cfg.run_id].jsonl = Ids(stage_rows)

Occurrences(rows_, r) == Cardinality({i \in 1..Len(rows_) : rows_[i] = r})

\* C16 amended: the content JSONL is in processing order, at every point
\* of the loop; the score JSONL holds the processed rows sorted ascending
\* by (canonical_id, event_name), whatever the processing order.
C16_Amended ==
    /\ (stage = "content" /\ stage_pc \in {"loop", "summary", "latest", "latest_write", "done"}) =>
           run_dirs[cfg.run_id].jsonl = Ids(SubSeq(stage_rows, 1, row_i - 1))
    /\ (stage = "content" /\ JsonlClosed) =>
           stage_rows = content_select(cfg.rows, cfg)
    /\ (stage = "score" /\ JsonlClosed) =>
           /\ run_dirs[cfg.run_id].jsonl = Ids(out_rows)
           /\ \A r \in StageRowKinds : Occurrences(out_rows, r) = Occurrences(stage_rows, r)
           /\ \A i \in 1..(Len(out_rows) - 1) :
                  ~KeyLess(<<out_rows[i + 1].canonical_id, out_rows[i + 1].event_name>>,
                           <<out_rows[i].canonical_id, out_rows[i].event_name>>)

\* A score run has processed a row of canonical id 2 before a row of
\* canonical id 1 and written the JSONL with 1 before 2.
C16_Witness ==
    /\ stage = "score"
    /\ stage_pc = "done"
    /\ Len(stage_rows) >= 2
    /\ stage_rows[1].canonical_id = 2
    /\ stage_rows[2].canonical_id = 1
    /\ run_dirs[cfg.run_id].jsonl[1] = 1
    /\ run_dirs[cfg.run_id].jsonl # Ids(stage_rows)

\* ------------------------------------------------------------------------
\* Export stage: export_ios_seed.py from the entries to the written files
\* ------------------------------------------------------------------------
MaxExportRows == 2

DEFAULT_KEY == "tsugie-ios-seed-v1"

KeySeeds == {DEFAULT_KEY, "another-key"}

\* a ^ b on bytes.
Xor8(a, b) ==
    LET bit(i) == ((a \div (2 ^ i)) + (b \div (2 ^ i))) % 2
    IN bit(0) + 2 * bit(1) + 4 * bit(2) + 8 * bit(3)
       + 16 * bit(4) + 32 * bit(5) + 64 * bit(6) + 128 * bit(7)

\* hashlib.sha256(key_seed).digest(): 32 bytes fixed by the seed; the
\* bytes stand for those of the digest.
sha256_digest(key_seed) ==
    [i \in 1..32 |-> ((IF key_seed = DEFAULT_KEY THEN 89 ELSE 163) * i + 41) % 256]

\* A variant that adds the key stream instead of xor-ing it.
xor_obfuscate_add(data, key_seed) ==
    LET key == sha256_digest(key_seed)
    IN [i \in 1..Len(data) |->
           (data[i] + key[((i - 1) % Len(key)) + 1] + (((i - 1) * 131 + 17) % 256)) % 256]

\* xor_obfuscate, lines 723-729; idx = i - 1.
xor_obfuscate(data, key_seed) ==
    LET key == sha256_digest(key_seed)
    IN [i \in 1..Len(data) |->
           Xor8(Xor8(data[i], key[((i - 1) % Len(key)) + 1]), ((i - 1) * 131 + 17) % 256)]

\* zlib as a lossless codec: a two-byte header followed by the runs of the
\* input as (length, byte) pairs; decompress raises on anything else.
RunLen(raw) == Cardinality({n \in 1..Len(raw) : \A j \in 1..n : raw[j] = raw[1]})

RECURSIVE Deflate(_)
Deflate(raw) ==
    IF raw = <<>> THEN <<>>
    ELSE <<RunLen(raw), raw[1]>> \o Deflate(SubSeq(raw, RunLen(raw) + 1, Len(raw)))

RECURSIVE Inflate(_)
Inflate(runs) ==
    IF runs = <<>> THEN <<>>
    ELSE [i \in 1..runs[1] |-> runs[2]] \o Inflate(SubSeq(runs, 3, Len(runs)))

zlib_compress(raw) == <<120, 218>> \o Deflate(raw)

\* zlib.error
ZlibError == <<-1>>

zlib_decompress(data) ==
    IF \/ Len(data) < 2
       \/ Len(data) % 2 = 1
       \/ SubSeq(data, 1, 2) # <<120, 218>>
       \/ \E i \in 3..Len(data) : i % 2 = 1 /\ data[i] = 0
    THEN ZlibError
    ELSE Inflate(SubSeq(data, 3, Len(data)))

\* build_binary_payload_bytes, lines 783-790, and build_payload_bytes,
\* lines 732-741, past json.dumps: the chunk, the checksum of the raw
\* bytes, and whether the self-check passed (it raises otherwise).
build_binary_payload_bytes(raw, key_seed) ==
    LET obfuscated == xor_obfuscate(zlib_compress(raw), key_seed)
    IN [chunk |-> obfuscated,
        checksum |-> Sha256(raw),
        ok |-> zlib_decompress(xor_obfuscate(obfuscated, key_seed)) = raw]

\* geohash of a row without a valid coordinate (None).
NoGeohash == 0

\* The bucket key "_unknown"; geohashes stand for their rank in string
\* order, 1 for one that begins with a digit and 3 for one that begins
\* with a letter, "_unknown" lying between the two.
UnknownBucket == 2

\* uuid.uuid4(): one of these, never the same twice in an invocation.
Uuid4Values == {"u1", "u2", "u3", "u4"}

IdCode(canonical_id) ==
    IF canonical_id = "c1" THEN 1 ELSE IF canonical_id = "c2" THEN 2
    ELSE IF canonical_id = "u1" THEN 3 ELSE IF canonical_id = "u2" THEN 4
    ELSE IF canonical_id = "u3" THEN 5 ELSE 6

\* uuid5(NAMESPACE_URL, "tsugie:{category}:{canonical_id}"), line 617, as
\* the rank of its text among the place ids: fixed by category and
\* canonical id, different for different pairs.
uuid5(category, canonical_id) ==
    (IdCode(canonical_id) * 7 + (IF category = "hanabi" THEN 0 ELSE 5)) % 17

NoImageRef == [payload_offset |-> -1, payload_length |-> 0, payload_sha256 |-> Sha256(<<>>)]

\* A fused row with what resolve_content_row and the file system give it:
\* image is the path of its downloaded image, "" for none.
ExportRow(canonical_id, geohash, image) ==
    [canonical_id |-> canonical_id, geohash |-> geohash, image |-> image]

\* build_entry, lines 608-720: uuid4 is what uuid.uuid4() returns if called.
build_entry(category, row, uuid4) ==
    LET canonical_id == IF row.canonical_id = "" THEN uuid4 ELSE row.canonical_id
    IN [category |-> category,
        canonical_id |-> canonical_id,
        ios_place_id |-> uuid5(category, canonical_id),
        geohash |-> row.geohash,
        _image_local_abs |-> row.image,
        image |-> NoImageRef]

\* compress_image_to_jpeg_bytes, lines 793-818: the JPEG bytes of the
\* file, none when sips fails.
compress_image_to_jpeg_bytes(image_path) ==
    IF image_path \in {"a.jpg", "copy_of_a.jpg"} THEN <<7, 7, 7>>
    ELSE IF image_path = "b.jpg" THEN <<9>>
    ELSE <<>>

\* A variant of the lookup that never finds a chunk.
encoded_by_hash_get_none(refs, raw_sha) == {}

\* encoded_by_hash.get(raw_sha): the ref recorded for the digest, if any.
encoded_by_hash_get(refs, raw_sha) == {r \in refs : r.payload_sha256 = raw_sha}

RECURSIVE AttachFrom(_, _, _, _)
\* The entry loop of attach_image_payload, lines 840-876; acc holds the
\* payload, the refs of encoded_by_hash and whether the self-check raised.
AttachFrom(es, i, key_seed, acc) ==
    IF i > Len(es) \/ acc.raised THEN acc
    ELSE LET entry == es[i]
             image_bytes == compress_image_to_jpeg_bytes(entry._image_local_abs)
         IN IF entry._image_local_abs = "" \/ image_bytes = <<>>
            THEN AttachFrom(es, i + 1, key_seed,
                            [acc EXCEPT !.entries = Append(@, entry)])
            ELSE LET enc == build_binary_payload_bytes(image_bytes, key_seed)
                     found == encoded_by_hash_get(acc.refs, enc.checksum)
                     ref == IF found = {}
                            THEN [payload_offset |-> Len(acc.payload),
                                  payload_length |-> Len(enc.chunk),
                                  payload_sha256 |-> enc.checksum]
                            ELSE CHOOSE r \in found : TRUE
                 IN IF ~enc.ok THEN [acc EXCEPT !.raised = TRUE]
                    ELSE AttachFrom(es, i + 1, key_seed,
                            [entries |-> Append(acc.entries, [entry EXCEPT !.image = ref]),
                             payload |-> IF found = {} THEN acc.payload \o enc.chunk
                                         ELSE acc.payload,
                             refs |-> acc.refs \cup {ref},
                             raised |-> FALSE])

\* attach_image_payload, lines 821-884.
attach_image_payload(es, key_seed) ==
    AttachFrom(es, 1, key_seed,
               [entries |-> <<>>, payload |-> <<>>, refs |-> {}, raised |-> FALSE])

\* json.dumps(rows).encode(): the bytes of each entry's fields in turn.
RECURSIVE json_dumps(_)
json_dumps(rows_) ==
    IF rows_ = <<>> THEN <<>>
    ELSE LET e == Head(rows_)
         IN <<123, e.ios_place_id, IdCode(e.canonical_id), e.geohash,
              e.image.payload_offset + 1, e.image.payload_length, 125>>
            \o json_dumps(Tail(rows_))

\* entry.get("geohash") or "_unknown"
bucket_key(entry) == IF entry.geohash = NoGeohash THEN UnknownBucket ELSE entry.geohash

RECURSIVE sorted_keys(_)
\* sorted(grouped.keys())
sorted_keys(ks) ==
    IF ks = {} THEN <<>>
    ELSE LET m == CHOOSE x \in ks : \A y \in ks : x <= y
         IN <<m>> \o sorted_keys(ks \ {m})

\* rows.sort(key=ios_place_id) and entries.sort(key=ios_place_id)
sort_by_place_id(es) ==
    Unkeyed(SortByKey([i \in 1..Len(es) |-> [key |-> <<es[i].ios_place_id>>, row |-> es[i]]]))

\* A variant that records the length of the payload after the chunk.
bucket_offset_after(payload, chunk) == Len(payload) + Len(chunk)

\* offset = len(payload), line 770.
bucket_offset(payload, chunk) == Len(payload)

RECURSIVE SpatialFrom(_, _, _, _, _)
\* The bucket loop of build_spatial_payload, lines 766-778.
SpatialFrom(keys, i, es, key_seed, acc) ==
    IF i > Len(keys) \/ acc.raised THEN acc
    ELSE LET rows_ == sort_by_place_id(SelectSeq(es, LAMBDA e : bucket_key(e) = keys[i]))
             enc == build_binary_payload_bytes(json_dumps(rows_), key_seed)
         IN IF ~enc.ok THEN [acc EXCEPT !.raised = TRUE]
            ELSE SpatialFrom(keys, i + 1, es, key_seed,
                    [payload |-> acc.payload \o enc.chunk,
                     meta |-> acc.meta @@
                              (keys[i] :> [record_count |-> Len(rows_),
                                           payload_sha256 |-> enc.checksum,
                                           payload_offset |-> bucket_offset(acc.payload, enc.chunk),
                                           payload_length |-> Len(enc.chunk)]),
                     raised |-> FALSE])

\* build_spatial_payload, lines 754-780.
build_spatial_payload(es, key_seed) ==
    SpatialFrom(sorted_keys({bucket_key(es[i]) : i \in 1..Len(es)}), 1, es, key_seed,
                [payload |-> <<>>, meta |-> <<>>, raised |-> FALSE])

\* The fused rows of the two projects.
HanabiRowKinds ==
    {ExportRow("c1", 3, "a.jpg"), ExportRow("c2", 1, "copy_of_a.jpg"), ExportRow("", 3, "")}

OmatsuriRowKinds ==
    {ExportRow("c1", NoGeohash, "b.jpg"), ExportRow("c2", 3, "a.jpg"),
     ExportRow("", NoGeohash, "broken.jpg")}

ExportInputs ==
    {[hanabi_rows |-> h, omatsuri_rows |-> o, key |-> k] :
        h \in UNION {[1..n -> HanabiRowKinds] : n \in 0..MaxExportRows},
        o \in UNION {[1..n -> OmatsuriRowKinds] : n \in 0..MaxExportRows},
        k \in KeySeeds}

InitExport ==
    /\ FusionIdle
    /\ VoteIdle
    /\ ContentIdle
    /\ StageIdle
    /\ GeohashIdle
    /\ NetworkIdle
    /\ CodexIdle
    /\ ScoreIdle
    /\ ImagesIdle
    /\ export_in \in ExportInputs
    /\ export_pc = "load"
    /\ invocation = 1
    /\ export_entries = <<>>
    /\ images_bin = <<>>
    /\ payload_bin = <<>>
    /\ bucket_meta = <<>>
    /\ exported = <<>>

\* main, lines 930-966: the entries of the hanabi rows, then of the
\* omatsuri rows, sorted by ios_place_id.
ExportBuildEntries ==
    /\ export_pc = "load"
    /\ LET h == export_in.hanabi_rows
           o == export_in.omatsuri_rows
       IN \E u \in {f \in [1..(Len(h) + Len(o)) -> Uuid4Values] :
                       \A i, j \in DOMAIN f : i # j => f[i] # f[j]} :
            export_entries' = sort_by_place_id(
                [i \in 1..Len(h) |-> build_entry("hanabi", h[i], u[i])]
                \o [i \in 1..Len(o) |-> build_entry("matsuri", o[i], u[Len(h) + i])])
    /\ export_pc' = "images"
    /\ UNCHANGED <<export_in, invocation, images_bin, payload_bin, bucket_meta, exported>>
    /\ UNCHANGED NotExport

\* main, lines 968-973.
ExportAttachImages ==
    /\ export_pc = "images"
    /\ \E a \in {attach_image_payload(export_entries, export_in.key)} :
         IF a.raised
         THEN export_pc' = "raised" /\ UNCHANGED <<export_entries, images_bin>>
         ELSE /\ export_entries' = a.entries
              /\ images_bin' = a.payload
              /\ export_pc' = "spatial"
    /\ UNCHANGED <<export_in, invocation, payload_bin, bucket_meta, exported>>
    /\ UNCHANGED NotExport

\* main, line 975.
ExportBuildSpatial ==
    /\ export_pc = "spatial"
    /\ \E b \in {build_spatial_payload(export_entries, export_in.key)} :
         IF b.raised
         THEN export_pc' = "raised" /\ UNCHANGED <<payload_bin, bucket_meta>>
         ELSE /\ payload_bin' = b.payload
              /\ bucket_meta' = b.meta
              /\ export_pc' = "write"
    /\ UNCHANGED <<export_in, invocation, export_entries, images_bin, exported>>
    /\ UNCHANGED NotExport

\* index_doc without generated_at, lines 978-1022.
index_doc ==
    [record_counts |-> Len(export_entries),
     bucket_count |-> Cardinality(DOMAIN bucket_meta),
     payload_sha256 |-> Sha256(payload_bin),
     payload_size_bytes |-> Len(payload_bin),
     payload_buckets |-> bucket_meta,
     image_payload |-> [sha256 |-> Sha256(images_bin),
                        size_bytes |-> Len(images_bin),
                        entry_count |-> Cardinality({i \in 1..Len(export_entries) :
                                            export_entries[i].image # NoImageRef})]]

\* main, lines 1024-1036: the three files are written; the export is then
\* invoked a second time on the same inputs.
ExportWriteOutputs ==
    /\ export_pc = "write"
    /\ exported' = Append(exported, [index |-> index_doc, payload |-> payload_bin,
                                     image_payload |-> images_bin,
                                     entries |-> export_entries])
    /\ IF invocation = 1
       THEN /\ invocation' = 2
            /\ export_pc' = "load"
            /\ export_entries' = <<>>
            /\ images_bin' = <<>>
            /\ payload_bin' = <<>>
            /\ bucket_meta' = <<>>
       ELSE /\ export_pc' = "done"
            /\ UNCHANGED <<invocation, export_entries, images_bin, payload_bin, bucket_meta>>
    /\ UNCHANGED export_in
    /\ UNCHANGED NotExport

NextExport ==
    \/ ExportBuildEntries
    \/ ExportAttachImages
    \/ ExportBuildSpatial
    \/ ExportWriteOutputs

SpecExport == InitExport /\ [][NextExport]_vars

\* ------------------------------------------------------------------------
\* Properties of the export
\* ------------------------------------------------------------------------

\* The bytes from offset for length, as a slice payload[offset:offset+length].
Slice(bytes, ref) ==
    SubSeq(bytes, ref.payload_offset + 1, ref.payload_offset + ref.payload_length)

\* What a reader gets from a chunk: decompress(xor(chunk, key)).
Decoded(chunk) == zlib_decompress(xor_obfuscate(chunk, export_in.key))

\* The payloads of the invocation are built.
PayloadsBuilt == export_pc = "write"

EntriesOf(k) == SelectSeq(export_entries, LAMBDA e : bucket_key(e) = k)

ImageRefs ==
    {export_entries[i].image : i \in 1..Len(export_entries)} \ {NoImageRef}

RECURSIVE SumFn(_)
SumFn(f) ==
    IF DOMAIN f = {} THEN 0
    ELSE LET k == CHOOSE x \in DOMAIN f : TRUE
         IN f[k] + SumFn([j \in DOMAIN f \ {k} |-> f[j]])

\* ---------------------------------------------------------------------
\* C17: xor_obfuscate and the chunk self-check
\* ---------------------------------------------------------------------

\* Byte strings the function is tried on: short ones and ones longer than
\* the 32-byte key.
SampleBytes ==
    UNION {[1..n -> {0, 90, 255}] : n \in 0..2}
    \cup {[i \in 1..40 |-> (i * 53) % 256], [i \in 1..33 |-> 255], [i \in 1..65 |-> i]}

\* C17: under the key seed of the export xor_obfuscate keeps the length of
\* every byte string (the sample strings, the payload) and applied twice
\* returns it; every bucket chunk and every
\* image chunk of a built payload, de-obfuscated and decompressed, gives
\* bytes whose sha256 is the recorded payload_sha256, and no export gets
\* past a chunk that fails this.
C17_XorInvolutionAndChunks ==
    /\ export_pc = "load" =>
           \A d \in SampleBytes :
               /\ Len(xor_obfuscate(d, export_in.key)) = Len(d)
               /\ xor_obfuscate(xor_obfuscate(d, export_in.key), export_in.key) = d
               /\ \A i \in 1..Len(d) : xor_obfuscate(d, export_in.key)[i] \in 0..255
    /\ PayloadsBuilt =>
           /\ Len(xor_obfuscate(payload_bin, export_in.key)) = Len(payload_bin)
           /\ xor_obfuscate(xor_obfuscate(payload_bin, export_in.key), export_in.key) =
                  payload_bin
           /\ \A k \in DOMAIN bucket_meta :
                  Sha256(Decoded(Slice(payload_bin, bucket_meta[k]))) =
                      bucket_meta[k].payload_sha256
           /\ \A r \in ImageRefs :
                  Sha256(Decoded(Slice(images_bin, r))) = r.payload_sha256

\* A payload is built with a bucket chunk longer than the key and an
\* image chunk.
C17_Witness ==
    /\ PayloadsBuilt
    /\ \E k \in DOMAIN bucket_meta : bucket_meta[k].payload_length > 32
    /\ ImageRefs # {}
    /\ xor_obfuscate(payload_bin, export_in.key) # payload_bin

\* ---------------------------------------------------------------------
\* C18: the layout of the spatial payload
\* ---------------------------------------------------------------------

\* C18: the payload is the concatenation of the bucket chunks in
\* ascending key order: the first bucket is at offset 0, each bucket's
\* offset is the sum of the lengths of the buckets with a smaller key, the
\* ranges do not overlap and cover the payload, every entry is in exactly
\* one bucket (without a geohash: in "_unknown"), and the record counts
\* sum to the number of entries.
C18_BucketLayout ==
    PayloadsBuilt =>
        LET keys == DOMAIN bucket_meta
            len == [k \in keys |-> bucket_meta[k].payload_length]
            off == [k \in keys |-> bucket_meta[k].payload_offset]
        IN /\ \A k \in keys :
                  off[k] = SumFn([j \in {x \in keys : x < k} |-> len[j]])
           /\ \A k \in keys : (\A j \in keys : k <= j) => off[k] = 0
           /\ \A k, j \in keys : k < j => off[k] + len[k] <= off[j]
           /\ SumFn(len) = Len(payload_bin)
           /\ \A k \in keys : len[k] > 0
           /\ \A i \in 1..Len(export_entries) :
                  /\ bucket_key(export_entries[i]) \in keys
                  /\ export_entries[i].geohash = NoGeohash =>
                         bucket_key(export_entries[i]) = UnknownBucket
           /\ \A k \in keys :
                  /\ bucket_meta[k].record_count = Len(EntriesOf(k))
                  /\ Decoded(Slice(payload_bin, bucket_meta[k])) = json_dumps(EntriesOf(k))
           /\ SumFn([k \in keys |-> bucket_meta[k].record_count]) = Len(export_entries)

\* A payload of three buckets, "_unknown" among them, is built.
C18_Witness ==
    /\ PayloadsBuilt
    /\ Cardinality(DOMAIN bucket_meta) = 3
    /\ UnknownBucket \in DOMAIN bucket_meta
    /\ bucket_meta[UnknownBucket].payload_offset > 0
    /\ \E k \in DOMAIN bucket_meta : bucket_meta[k].record_count >= 2

\* ---------------------------------------------------------------------
\* C19: the image payload holds each image content once
\* ---------------------------------------------------------------------

\* The entries whose image file exists and compresses.
HasImage(e) == compress_image_to_jpeg_bytes(e._image_local_abs) # <<>>

\* C19: every entry with an image carries the offset, length and sha of a
\* chunk lying wholly inside the image payload and decoding to its image;
\* entries whose images have the same sha share offset and length; chunks
\* of different sha do not overlap; and the payload is as long as the
\* unique chunks together.
C19_ImagePayloadDeduplicated ==
    PayloadsBuilt =>
        /\ \A i \in 1..Len(export_entries) :
               LET e == export_entries[i]
               IN IF HasImage(e)
                  THEN /\ e.image # NoImageRef
                       /\ e.image.payload_offset >= 0
                       /\ e.image.payload_length > 0
                       /\ e.image.payload_offset + e.image.payload_length <= Len(images_bin)
                       /\ e.image.payload_sha256 =
                              Sha256(compress_image_to_jpeg_bytes(e._image_local_abs))
                       /\ Decoded(Slice(images_bin, e.image)) =
                              compress_image_to_jpeg_bytes(e._image_local_abs)
                  ELSE e.image = NoImageRef
        /\ \A r, q \in ImageRefs :
               /\ r.payload_sha256 = q.payload_sha256 => r = q
               /\ r # q => \/ r.payload_offset + r.payload_length <= q.payload_offset
                           \/ q.payload_offset + q.payload_length <= r.payload_offset
        /\ Len(images_bin) = SumFn([r \in ImageRefs |-> r.payload_length])

\* Two entries whose image files differ and hold the same bytes share one
\* chunk, and a chunk of another image follows it.
C19_Witness ==
    /\ PayloadsBuilt
    /\ \E i, j \in 1..Len(export_entries) :
           /\ export_entries[i]._image_local_abs = "a.jpg"
           /\ export_entries[j]._image_local_abs = "copy_of_a.jpg"
           /\ export_entries[i].image = export_entries[j].image
           /\ export_entries[i].image # NoImageRef
    /\ \E r \in ImageRefs : r.payload_offset > 0
    /\ Cardinality(ImageRefs) = 2

\* ---------------------------------------------------------------------
\* C20: two invocations on the same inputs
\* ---------------------------------------------------------------------

\* C20 as stated: two invocations of the export on the same frozen
\* records and key write the same payload, the same image payload and,
\* generated_at apart, the same index, whatever the input: rows with an
\* empty or missing canonical_id included.
C20_AsStated ==
    export_pc = "done" =>
        /\ exported[1].payload = exported[2].payload
        /\ exported[1].image_payload = exported[2].image_payload
        /\ exported[1].index = exported[2].index

AllCanonicalIdsPresent ==
    /\ \A i \in 1..Len(export_in.hanabi_rows) : export_in.hanabi_rows[i].canonical_id # ""
    /\ \A i \in 1..Len(export_in.omatsuri_rows) : export_in.omatsuri_rows[i].canonical_id # ""

\* The same, for inputs in which every fused row has a canonical_id.
C20_WithCanonicalIds ==
    (export_pc = "done" /\ AllCanonicalIdsPresent) =>
        /\ exported[1].payload = exported[2].payload
        /\ exported[1].image_payload = exported[2].image_payload
        /\ exported[1].index = exported[2].index

\* ------------------------------------------------------------------------
\* Export: the geohash of one entry (export_ios_seed.py: parse_coordinate,
\* geohash_encode, build_entry lines 623-629)
\* ------------------------------------------------------------------------
\* Coordinates are integers in micro-degrees.  Every midpoint the encoder
\* computes is 360 / 2^k or 180 / 2^k degrees away from an interval end and
\* is exact in a double, so the comparisons are those of exact arithmetic.
\* The intervals are kept by the offset of the coordinate above the lower
\* end, rescaled after every halving so that the interval keeps its first
\* width (the offset doubles instead of the width halving): offsets stay
\* integers below 2^31 at every precision.

\* GEOHASH_ALPHABET
GEOHASH_ALPHABET ==
    <<"0", "1", "2", "3", "4", "5", "6", "7", "8", "9", "b", "c", "d", "e", "f", "g",
      "h", "j", "k", "m", "n", "p", "q", "r", "s", "t", "u", "v", "w", "x", "y", "z">>

\* bits = (16, 8, 4, 2, 1)
geohash_bits == <<16, 8, 4, 2, 1>>

\* A fused row's lat and lng: values float() rejects have parses = FALSE.
GeoRow(parses, lat, lng) == [parses |-> parses, lat |-> lat, lng |-> lng]

\* parse_coordinate's None.
NoCoordinate == <<>>

\* parse_coordinate(row)
parse_coordinate(row) ==
    IF ~row.parses THEN NoCoordinate
    ELSE IF ~(/\ -90 * 1000000 <= row.lat /\ row.lat <= 90 * 1000000
              /\ -180 * 1000000 <= row.lng /\ row.lng <= 180 * 1000000)
    THEN NoCoordinate
    ELSE <<row.lat, row.lng>>

\* "lng > mid" in place of "lng >= mid".
above_mid(offset, width) == 2 * offset > width

\* mid = (lo + hi) / 2; "lng >= mid" (and "lat >= mid") for a coordinate
\* offset above lo in an interval of the given width.
at_or_above_mid(offset, width) == 2 * offset >= width

\* One pass of the while loop of geohash_encode.  s.lat and s.lng are the
\* offsets of lat and lng above lat_lo and lng_lo.
geohash_step(s) ==
    LET width == IF s.is_lng THEN 360 * 1000000 ELSE 180 * 1000000
        offset == IF s.is_lng THEN s.lng ELSE s.lat
        hit == at_or_above_mid(offset, width)
        ch == IF hit THEN s.ch + geohash_bits[s.bit + 1] ELSE s.ch
        rest == IF hit THEN 2 * offset - width ELSE 2 * offset
    IN [lat |-> IF s.is_lng THEN s.lat ELSE rest,
        lng |-> IF s.is_lng THEN rest ELSE s.lng,
        is_lng |-> ~s.is_lng,
        bit |-> IF s.bit < 4 THEN s.bit + 1 ELSE 0,
        ch |-> IF s.bit < 4 THEN ch ELSE 0,
        out |-> IF s.bit < 4 THEN s.out ELSE Append(s.out, GEOHASH_ALPHABET[ch + 1])]

RECURSIVE geohash_loop(_, _)
geohash_loop(s, precision) ==
    IF Len(s.out) >= precision THEN s.out
    ELSE geohash_loop(geohash_step(s), precision)

\* The list out of geohash_encode when the loop ends.
geohash_out(lat, lng, precision) ==
    geohash_loop([lat |-> lat + 90 * 1000000, lng |-> lng + 180 * 1000000,
                  is_lng |-> TRUE, bit |-> 0, ch |-> 0, out |-> <<>>], precision)

\* "".join(out)
RECURSIVE join(_)
join(out) == IF out = <<>> THEN "" ELSE out[1] \o join(Tail(out))

\* geohash_encode(lat, lng, precision)
geohash_encode(lat, lng, precision) == join(geohash_out(lat, lng, precision))

\* The rows and precisions of the geohash runs.  main accepts a precision
\* of 3 to 8 only.
GeoLats == {-90 * 1000000, -45 * 1000000, -1, 0, 35681236, 45 * 1000000, 90 * 1000000}
GeoLngs == {-180 * 1000000, -90 * 1000000, -1, 0, 90 * 1000000, 139767125, 180 * 1000000}
GeoRows ==
    {GeoRow(TRUE, lat, lng) : lat \in GeoLats, lng \in GeoLngs}
        \cup {GeoRow(FALSE, 0, 0), GeoRow(TRUE, 90 * 1000000 + 1, 0),
              GeoRow(TRUE, 0, -180 * 1000000 - 1)}
GeoPrecisions == 3..8

InitGeohash ==
    /\ FusionIdle
    /\ VoteIdle
    /\ ContentIdle
    /\ StageIdle
    /\ ExportIdle
    /\ NetworkIdle
    /\ CodexIdle
    /\ ScoreIdle
    /\ ImagesIdle
    /\ geo_pc = "row"
    /\ geo_row \in GeoRows
    /\ geo_precision \in GeoPrecisions
    /\ geo_coord = NoCoordinate
    /\ geo_hash = <<>>

\* build_entry, line 626: coord = parse_coordinate(row)
GeohashParse ==
    /\ geo_pc = "row"
    /\ geo_coord' = parse_coordinate(geo_row)
    /\ geo_pc' = "coord"
    /\ UNCHANGED <<geo_row, geo_precision, geo_hash, NotGeohash>>

\* build_entry, lines 625-629: geohash stays None without a coordinate.
\* A geohash is held as <<text>>, None as <<>>.
GeohashEncode ==
    /\ geo_pc = "coord"
    /\ geo_hash' = IF geo_coord = NoCoordinate THEN <<>>
                   ELSE <<geohash_encode(geo_coord[1], geo_coord[2], geo_precision)>>
    /\ geo_pc' = "done"
    /\ UNCHANGED <<geo_row, geo_precision, geo_coord, NotGeohash>>

NextGeohash ==
    \/ GeohashParse
    \/ GeohashEncode

SpecGeohash == InitGeohash /\ [][NextGeohash]_vars

\* ------------------------------------------------------------------------
\* C21
\* ------------------------------------------------------------------------
\* The five bits of the first character, stated from the coordinate itself:
\* longitude against 0, latitude against 0, longitude against the middle of
\* its half, latitude against the middle of its half, longitude against the
\* middle of its quarter.
FirstCharBits(lat, lng) ==
    LET b1 == lng >= 0
        b2 == lat >= 0
        m3 == IF b1 THEN 90 * 1000000 ELSE -90 * 1000000
        b3 == lng >= m3
        m4 == IF b2 THEN 45 * 1000000 ELSE -45 * 1000000
        b4 == lat >= m4
        m5 == IF b3 THEN m3 + 45 * 1000000 ELSE m3 - 45 * 1000000
        b5 == lng >= m5
        v(b, w) == IF b THEN w ELSE 0
    IN v(b1, 16) + v(b2, 8) + v(b3, 4) + v(b4, 2) + v(b5, 1)

GeohashDone == geo_pc = "done" /\ geo_coord # NoCoordinate

\* C21: geohash_encode(lat, lng, p) has exactly p characters of the
\* alphabet 0123456789bcdefghjkmnpqrstuvwxyz; its bits come from bisecting
\* the longitude interval first and the latitude interval alternately, a
\* bit being 1 iff the coordinate is >= the midpoint, five bits per
\* character most significant first; the result for p is a prefix of the
\* result for p + 1; and (35.681236, 139.767125, 5) gives "xn76u".
C21_GeohashEncode ==
    /\ GeohashDone =>
        LET lat == geo_coord[1]
            lng == geo_coord[2]
            out == geohash_out(lat, lng, geo_precision)
        IN /\ geo_hash = <<join(out)>>
           /\ Len(out) = geo_precision
           /\ \A i \in 1..Len(out) :
                  \E k \in 1..32 : out[i] = GEOHASH_ALPHABET[k]
           /\ out[1] = GEOHASH_ALPHABET[FirstCharBits(lat, lng) + 1]
           /\ \A p \in 1..8 :
                  SubSeq(geohash_out(lat, lng, p + 1), 1, p) = geohash_out(lat, lng, p)
    /\ geo_pc = "done" /\ geo_row = GeoRow(TRUE, 35681236, 139767125)
           /\ geo_precision = 5
        => geo_hash = <<"xn76u">>
    /\ geohash_encode(35681236, 139767125, 5) = "xn76u"

C21_Witness ==
    /\ geo_pc = "done"
    /\ geo_row = GeoRow(TRUE, 35681236, 139767125)
    /\ geo_precision = 5
    /\ geo_hash = <<"xn76u">>

\* ------------------------------------------------------------------------
\* C22
\* ------------------------------------------------------------------------
\* Every group is fused and the overlap repair has not started.
FuseLoopOver == pc = "repair"

\* The geocode_log rows of the geocoder's answers for event i, in log order.
AttemptsOf(i) ==
    LET Answer(e) == e.source = "geocoder" /\ e.status # "skipped_no_query"
    IN SelectSeq(LogRowsOf(i), Answer)

Resolving(e) == e.status \in {"ok", "cached_ok"}

ResolvingWithPoint(e) == Resolving(e) /\ e.lat # NoCoord /\ e.lng # NoCoord

\* The voted lat/lng of event i do not parse.
VotedUnparsed(i) ==
    LET m == MergedBase(i, groups[i])
    IN ToCoord(m.lat) = NoCoord \/ ToCoord(m.lng) = NoCoord

\* The answers of event i follow the query list in its order.
InListOrder(i) ==
    LET qs == _build_geocode_queries(fused_rows[i])
        as == AttemptsOf(i)
    IN /\ Len(as) <= Len(qs)
       /\ \A k \in 1..Len(as) : as[k].strategy = qs[k].strategy

\* Event i sits at the centre of its prefecture (the prefecture field or,
\* when that is empty, the prefecture read from its address or names) when
\* that is in the centre table, and is missing otherwise.
FellBack(i) ==
    LET row == fused_rows[i]
        centre == _resolve_prefecture_center(row)
    IN IF centre # <<>>
       THEN /\ row.geo_source = GS("pref_center_fallback")
            /\ row.lat = Num(centre[1])
            /\ row.lng = Num(centre[2])
       ELSE /\ row.geo_source = GS("missing")
            /\ row.lat = EmptyStr
            /\ row.lng = EmptyStr

MinInterval == 4

\* Time passes on its own up to this reading of the clock.
MaxClock == 2

\* Rows of a run.
MaxNetEvents == 2

\* Source URLs of an event.
NetSourceUrls == 3

\* Image URLs of a page that has images.
NetImageUrls == 2

\* RateLimiter.__init__: min_interval = 0.0 if qps <= 0 else 1.0 / qps
RateLimiter_init(qps_positive) == IF qps_positive THEN MinInterval ELSE 0

\* A variant of wait that never moves _next_at.
RateLimiter_wait_once(now, nxt, min_interval) ==
    IF min_interval <= 0 THEN [now |-> now, next_at |-> nxt]
    ELSE [now |-> IF now < nxt THEN nxt ELSE now, next_at |-> nxt]

\* RateLimiter.wait: the clock when wait returns and the new _next_at.
RateLimiter_wait(now, nxt, min_interval) ==
    IF min_interval <= 0 THEN [now |-> now, next_at |-> nxt]
    ELSE LET woke == IF now < nxt THEN nxt ELSE now
         IN [now |-> woke, next_at |-> woke + min_interval]

\* time.sleep(min(4.0, 0.5 * attempt)), in ticks.
RetrySleep(attempt) == IF attempt < 8 THEN attempt ELSE 8

\* What client.get(url) ends with: status 200, another status, or an
\* exception whose text is the error.
HttpOutcomes == {"200", "http_503", "timed out"}

\* An outbound request: its kind, the clock when it is sent, and whether
\* limiter.wait() was called for it.
Request(kind, at, waited) == [kind |-> kind, at |-> at, waited |-> waited]

\* A variant that reports the error of the first failed attempt.
FetchResultFirstError(response, error, outcomes) ==
    [response |-> response,
     error |-> IF response THEN "" ELSE outcomes[1],
     attempts |-> Len(outcomes), outcomes |-> outcomes]

\* What fetch_page_with_retries returns for a URL: response (None when
\* FALSE) and the error text; with them the number of attempts made and
\* what each client.get(url) ended with.
FetchResult(response, error, outcomes) ==
    [response |-> response, error |-> error, attempts |-> Len(outcomes), outcomes |-> outcomes]

NetConfigs ==
    {[min_interval |-> RateLimiter_init(q), max_retries |-> mr, max_source_urls |-> mu,
      polisher |-> p, download_images |-> TRUE] :
        q \in BOOLEAN, mr \in {0, 2, 3}, mu \in {0, 2}, p \in BOOLEAN}

NoFetch ==
    [n |-> 0, url_i |-> 0, max_retries |-> 0, attempt |-> 0, last_error |-> "",
     outcomes |-> <<>>]

NoEvent == [reused |-> FALSE, raw_description |-> FALSE, images |-> 0]

InitNetwork ==
    /\ FusionIdle
    /\ VoteIdle
    /\ ContentIdle
    /\ StageIdle
    /\ ExportIdle
    /\ GeohashIdle
    /\ CodexIdle
    /\ ScoreIdle
    /\ ImagesIdle
    /\ net_stage \in {"content", "score"}
    /\ net_pc = "event"
    /\ net_cfg \in NetConfigs
    /\ net_stage = "score" =>
           net_cfg.max_retries = 3 /\ net_cfg.max_source_urls = 2 /\ ~net_cfg.polisher
    /\ clock = 1
    /\ next_at = 0
    /\ requests = <<>>
    /\ events_left = MaxNetEvents
    /\ fetch = NoFetch
    /\ fetched = <<>>
    /\ ev = NoEvent

\* persist_record and the next pass of the row loop.
NetPersist ==
    /\ net_pc' = "event"
    /\ events_left' = events_left - 1
    /\ fetch' = NoFetch
    /\ fetched' = <<>>
    /\ ev' = NoEvent

\* Lines 2053-2065: download_images is called when the extract has image
\* URLs and --download-images is on (never for a reused record).
NetAfterPolish(e) ==
    IF ~e.reused /\ e.images > 0 /\ net_cfg.download_images
    THEN /\ net_pc' = "images"
         /\ ev' = e
         /\ UNCHANGED <<events_left, fetch, fetched>>
    ELSE NetPersist

\* Lines 1979 and 1863: the OpenAI polisher is called for a description.
NetAfterExtract(e) ==
    IF e.raw_description /\ net_cfg.polisher
    THEN /\ net_pc' = "polish_description"
         /\ ev' = e
         /\ UNCHANGED <<events_left, fetch, fetched>>
    ELSE NetAfterPolish(e)

\* run_project, the top of the row loop: the row is served from its
\* previous record (lines 1840-1939), with a polish upgrade of the reused
\* description when one is due, or it is fetched (lines 1941-1943).
NetContentEvent ==
    /\ net_stage = "content"
    /\ net_pc = "event"
    /\ events_left > 0
    /\ \/ /\ NetPersist
          /\ UNCHANGED <<clock, next_at, requests>>
       \/ /\ net_cfg.polisher
          /\ net_pc' = "polish_description"
          /\ ev' = [reused |-> TRUE, raw_description |-> TRUE, images |-> 0]
          /\ UNCHANGED <<clock, next_at, requests, events_left, fetch, fetched>>
       \/ /\ net_pc' = "fetch"
          /\ fetch' = [n |-> Min(NetSourceUrls, Max(1, net_cfg.max_source_urls)),
                       url_i |-> 1,
                       max_retries |-> Max(1, net_cfg.max_retries),
                       attempt |-> 1,
                       last_error |-> "",
                       outcomes |-> <<>>]
          /\ UNCHANGED <<clock, next_at, requests, events_left, fetched, ev>>
    /\ UNCHANGED <<net_stage, net_cfg, NotNetwork>>

\* The URL loop of lines 1944-1951 moves on after a return of
\* fetch_page_with_retries.
NetNextUrl(result) ==
    /\ fetched' = Append(fetched, result)
    /\ IF fetch.url_i < fetch.n
       THEN /\ fetch' = [fetch EXCEPT !.url_i = @ + 1, !.attempt = 1, !.last_error = "",
                                      !.outcomes = <<>>]
            /\ net_pc' = "fetch"
       ELSE /\ fetch' = fetch
            /\ net_pc' = "extract"

\* fetch_page_with_retries, one pass of the attempt loop: limiter.wait(),
\* client.get(url), return on status 200, else remember the error and
\* sleep before the next attempt; after the last attempt return
\* (None, last_error).
NetFetchAttempt ==
    /\ net_pc = "fetch"
    /\ \E outcome \in HttpOutcomes, w \in {RateLimiter_wait(clock, next_at, net_cfg.min_interval)} :
         /\ requests' = Append(requests, Request("page", w.now, TRUE))
         /\ next_at' = w.next_at
         /\ IF outcome = "200"
            THEN /\ clock' = w.now
                 /\ NetNextUrl(FetchResult(TRUE, "", Append(fetch.outcomes, outcome)))
            ELSE IF fetch.attempt < fetch.max_retries
            THEN /\ clock' = w.now + RetrySleep(fetch.attempt)
                 /\ fetch' = [fetch EXCEPT !.attempt = @ + 1, !.last_error = outcome,
                                           !.outcomes = Append(@, outcome)]
                 /\ UNCHANGED <<net_pc, fetched>>
            ELSE /\ clock' = w.now
                 /\ NetNextUrl(FetchResult(FALSE, outcome, Append(fetch.outcomes, outcome)))
    /\ UNCHANGED <<net_stage, net_cfg, events_left, ev, NotNetwork>>

\* Lines 1964-1967: the best extract of the pages fetched; without a
\* response there is no description and no image URL.
NetExtract ==
    /\ net_pc = "extract"
    /\ IF \E k \in 1..Len(fetched) : fetched[k].response
       THEN \E raw \in BOOLEAN, images \in {0, NetImageUrls} :
              NetAfterExtract([reused |-> FALSE, raw_description |-> raw, images |-> images])
       ELSE NetAfterExtract(NoEvent)
    /\ UNCHANGED <<net_stage, net_cfg, clock, next_at, requests, NotNetwork>>

\* OpenAITextPolisher._call: client.post(endpoint, json=payload), with no
\* call of limiter.wait().  polish_bundle calls it for the description and
\* then for the one-liner; translate_pair calls it once; an exception of a
\* call ends the polishing of the event.
NetPolishCall ==
    /\ net_pc \in {"polish_description", "polish_one_liner", "translate"}
    /\ requests' = Append(requests, Request("model", clock, FALSE))
    /\ \E ok \in BOOLEAN :
         IF ok /\ net_pc = "polish_description"
         THEN /\ net_pc' = "polish_one_liner"
              /\ UNCHANGED <<events_left, fetch, fetched, ev>>
         ELSE IF ok /\ net_pc = "polish_one_liner"
         THEN /\ net_pc' = "translate"
              /\ UNCHANGED <<events_left, fetch, fetched, ev>>
         ELSE NetAfterPolish(ev)
    /\ UNCHANGED <<net_stage, net_cfg, clock, next_at, NotNetwork>>

\* download_images, one pass of the loop: limiter.wait(), client.get(url).
NetImageDownload ==
    /\ net_pc = "images"
    /\ \E w \in {RateLimiter_wait(clock, next_at, net_cfg.min_interval)} :
         /\ requests' = Append(requests, Request("image", w.now, TRUE))
         /\ next_at' = w.next_at
         /\ clock' = w.now
    /\ IF ev.images > 1
       THEN /\ ev' = [ev EXCEPT !.images = @ - 1]
            /\ UNCHANGED <<net_pc, events_left, fetch, fetched>>
       ELSE NetPersist
    /\ UNCHANGED <<net_stage, net_cfg, NotNetwork>>

\* enrich_event_scores.py main, one pass of the item loop (lines 699-824):
\* a reused or fallback row is appended without a request; otherwise
\* limiter.wait() and analyzer.analyze(model_input).
NetScoreItem ==
    /\ net_stage = "score"
    /\ net_pc = "event"
    /\ events_left > 0
    /\ \/ UNCHANGED <<clock, next_at, requests>>
       \/ \E w \in {RateLimiter_wait(clock, next_at, net_cfg.min_interval)} :
            /\ requests' = Append(requests, Request("api", w.now, TRUE))
            /\ next_at' = w.next_at
            /\ clock' = w.now
    /\ events_left' = events_left - 1
    /\ UNCHANGED <<net_stage, net_pc, net_cfg, fetch, fetched, ev, NotNetwork>>

\* The loop is over.
NetDone ==
    /\ net_pc = "event"
    /\ events_left = 0
    /\ net_pc' = "done"
    /\ UNCHANGED <<net_stage, net_cfg, clock, next_at, requests, events_left, fetch, fetched,
                   ev, NotNetwork>>

\* Time passes (a response is awaited, a page is parsed, a file is written).
NetTick ==
    /\ net_pc \notin {"off", "done"}
    /\ clock < MaxClock
    /\ clock' = clock + 1
    /\ UNCHANGED <<net_stage, net_pc, net_cfg, next_at, requests, events_left, fetch, fetched,
                   ev, NotNetwork>>

NextNetwork ==
    \/ NetContentEvent
    \/ NetFetchAttempt
    \/ NetExtract
    \/ NetPolishCall
    \/ NetImageDownload
    \/ NetScoreItem
    \/ NetDone
    \/ NetTick

SpecNetwork == InitNetwork /\ [][NextNetwork]_vars

\* ------------------------------------------------------------------------
\* C23
\* ------------------------------------------------------------------------
\* Requests i and i + 1 are at least min_interval apart.
Apart(i) == requests[i + 1].at - requests[i].at >= net_cfg.min_interval

\* C23 as stated: every outbound request of a stage run first waits on the
\* stage's rate limiter, and with qps > 0 any two consecutive outbound
\* requests (page fetch attempts, image downloads, model and API requests)
\* are at least 1 / qps apart on the monotonic clock.
C23_AsStated ==
    /\ \A i \in 1..Len(requests) : requests[i].waited
    /\ net_cfg.min_interval > 0 =>
           \A i \in 1..(Len(requests) - 1) : Apart(i)

\* The requests that wait on the limiter, in order.
Limited ==
    LET Waited(r) == r.waited
    IN SelectSeq(requests, Waited)

\* What holds of the limiter: page fetch attempts, image downloads and the
\* score stage's API requests wait on it, and with qps > 0 any two
\* consecutive ones of these are at least 1 / qps apart; the model
\* requests of the content stage do not wait.
C23_LimitedRequestsApart ==
    /\ \A i \in 1..Len(requests) :
           requests[i].waited <=> requests[i].kind \in {"page", "image", "api"}
    /\ net_cfg.min_interval > 0 =>
           \A i \in 1..(Len(Limited) - 1) :
               Limited[i + 1].at - Limited[i].at >= net_cfg.min_interval

\* A content run with qps > 0 fetched a page and sent a model request less
\* than 1 / qps after it.
C23_ModelRequestUnlimited ==
    /\ net_stage = "content"
    /\ net_cfg.min_interval > 0
    /\ \E i \in 1..(Len(requests) - 1) :
         /\ requests[i].kind = "page"
         /\ requests[i + 1].kind = "model"
         /\ ~Apart(i)

\* ------------------------------------------------------------------------
\* C25
\* ------------------------------------------------------------------------
\* A return of fetch_page_with_retries after at most `most` attempts: it
\* stopped at the first status 200, every other status and every exception
\* counted as a failed attempt, and without a 200 it made all its attempts
\* and returned no response with the error of the last one.
FetchedWithin(r, most) ==
    /\ r.attempts >= 1
    /\ r.attempts <= most
    /\ \A a \in 1..(r.attempts - 1) : r.outcomes[a] # "200"
    /\ r.response <=> r.outcomes[r.attempts] = "200"
    /\ r.response => r.error = ""
    /\ ~r.response =>
           /\ r.attempts = most
           /\ r.error = r.outcomes[r.attempts]
           /\ r.error \in {"http_503", "timed out"}

\* Every attempt made for the first row of the run is a request that
\* waited on the limiter.
AttemptsWaited ==
    events_left = MaxNetEvents /\ net_stage = "content" =>
        LET Page(r) == r.kind = "page"
            pages == SelectSeq(requests, Page)
            attempts == [k \in 1..Len(fetched) |-> fetched[k].attempts]
        IN /\ \A i \in 1..Len(pages) : pages[i].waited
           /\ net_pc = "fetch" => Len(pages) = SumFn(attempts) + Len(fetch.outcomes)
           /\ net_pc = "extract" => Len(pages) = SumFn(attempts)

\* C25 as stated: fetching one source URL makes at most max_retries
\* attempts, each after a rate-limiter wait, stops at the first status 200,
\* counts every other status and every transport exception as a failed
\* attempt, and on exhaustion returns no response with the last error
\* (http_<code> or the exception text) without raising; at most
\* max_source_urls_per_event URLs are fetched per event.
C25_AsStated ==
    /\ \A k \in 1..Len(fetched) : FetchedWithin(fetched[k], net_cfg.max_retries)
    /\ AttemptsWaited
    /\ Len(fetched) <= net_cfg.max_source_urls

\* C25 amended: fetching one source URL makes at most max(1, max_retries)
\* attempts, each after a rate-limiter wait, stops at the first status 200,
\* counts every other status and every transport exception as a failed
\* attempt, and on exhaustion returns no response with the last error
\* without raising; at most max(1, max_source_urls_per_event) URLs are
\* fetched per event.
C25_Amended ==
    /\ \A k \in 1..Len(fetched) : FetchedWithin(fetched[k], Max(1, net_cfg.max_retries))
    /\ AttemptsWaited
    /\ Len(fetched) <= Max(1, net_cfg.max_source_urls)

\* With max_retries = 3 and two URLs per event: the first URL failed three
\* times with different errors, the second answered 200 at its second
\* attempt.
C25_Witness ==
    /\ net_cfg.max_retries = 3
    /\ net_cfg.max_source_urls = 2
    /\ Len(fetched) = 2
    /\ fetched[1] = FetchResult(FALSE, "timed out", <<"http_503", "http_503", "timed out">>)
    /\ fetched[2] = FetchResult(TRUE, "", <<"timed out", "200">>)

\* With max_retries = 0 and max_source_urls_per_event = 0 a URL was fetched.
C25_WitnessClamped ==
    /\ net_cfg.max_retries = 0
    /\ net_cfg.max_source_urls = 0
    /\ Len(fetched) = 1
    /\ fetched[1].attempts = 1

\* ------------------------------------------------------------------------
\* One call of the codex polisher (enrich_event_content.py,
\* CodexTextPolisher._call)
\* ------------------------------------------------------------------------
\* self.model: empty, the fallback model itself, or another model.
CodexModels == {"", "gpt-5", "gpt-5-codex-mini"}

\* Lines 336-342: the preferred model, then gpt-5 unless it is already
\* listed.
models_to_try(model) ==
    (IF model # "" THEN <<model>> ELSE <<>>)
    \o (IF model = "gpt-5" THEN <<>> ELSE <<"gpt-5">>)

\* range(1, 3): the attempts per model.
CodexAttempts == 2

\* What subprocess.run ends with: exit code 0 ("ok"), a non-zero exit code
\* ("fail"), a non-zero exit code with CODEX_UNSUPPORTED_HINT in the output
\* ("unsupported"), or TimeoutExpired after timeout_sec ("timeout"); and
\* whether codex wrote its last message to the output file.
CodexOutcomes ==
    {[kind |-> k, wrote |-> w] : k \in {"ok", "fail", "unsupported"}, w \in BOOLEAN}
        \cup {[kind |-> "timeout", wrote |-> FALSE]}

InitCodex ==
    /\ FusionIdle
    /\ VoteIdle
    /\ ContentIdle
    /\ StageIdle
    /\ ExportIdle
    /\ GeohashIdle
    /\ NetworkIdle
    /\ ScoreIdle
    /\ ImagesIdle
    /\ codex_pc = "start"
    /\ codex_model \in CodexModels
    /\ codex_try = <<>>
    /\ codex_file = 0
    /\ codex_runs = <<>>
    /\ codex_result = <<>>

\* Lines 331-343: the temporary output file is created empty, the
\* candidates are listed.
CodexStart ==
    /\ codex_pc = "start"
    /\ codex_try' = [models |-> models_to_try(codex_model), model_i |-> 1, attempt |-> 1,
                     last_error |-> <<"unknown codex error">>]
    /\ codex_file' = 0
    /\ codex_pc' = "run"
    /\ UNCHANGED <<codex_model, codex_runs, codex_result, NotCodex>>

\* The loops move on after a failed attempt (lines 344-345, 380-383): the
\* next attempt, the next model, or raise RuntimeError(last_error).  The
\* unsupported hint ends the attempts of a model other than gpt-5.
CodexNext(model_name, kind, last_error) ==
    IF ~(kind = "unsupported" /\ model_name # "gpt-5") /\ codex_try.attempt < CodexAttempts
    THEN /\ codex_try' = [codex_try EXCEPT !.attempt = @ + 1, !.last_error = last_error]
         /\ UNCHANGED <<codex_pc, codex_result>>
    ELSE IF codex_try.model_i < Len(codex_try.models)
    THEN /\ codex_try' = [codex_try EXCEPT !.model_i = @ + 1, !.attempt = 1,
                                           !.last_error = last_error]
         /\ UNCHANGED <<codex_pc, codex_result>>
    ELSE /\ codex_try' = [codex_try EXCEPT !.last_error = last_error]
         /\ codex_pc' = "raised"
         /\ codex_result' = [kind |-> "RuntimeError", value |-> last_error]

\* A variant in which the timeout of an attempt is caught and counts as a
\* failed attempt.
CodexTimedOutRetried(model_name) ==
    CodexNext(model_name, "fail", <<"timeout", model_name, codex_try.attempt>>)

\* subprocess.TimeoutExpired is raised by subprocess.run (line 362) inside
\* the try/finally of _call, which has no except clause: it leaves _call.
CodexTimedOut(model_name) ==
    /\ codex_pc' = "raised"
    /\ codex_result' = [kind |-> "TimeoutExpired", value |-> <<>>]
    /\ UNCHANGED codex_try

\* Lines 346-383: one pass of the attempt loop.
CodexRun ==
    /\ codex_pc = "run"
    /\ \E outcome \in CodexOutcomes :
         LET model_name == codex_try.models[codex_try.model_i]
             run_no == Len(codex_runs) + 1
             output_text == IF outcome.wrote THEN run_no ELSE codex_file
             run == [model |-> model_name, attempt |-> codex_try.attempt,
                     kind |-> outcome.kind, output_text |-> output_text]
         IN /\ codex_runs' = Append(codex_runs, run)
            /\ codex_file' = output_text
            /\ IF outcome.kind = "timeout"
               THEN CodexTimedOut(model_name)
               ELSE IF outcome.kind = "ok" /\ output_text # 0
               THEN /\ codex_pc' = "returned"
                    /\ codex_result' = [kind |-> "return", value |-> output_text]
                    /\ UNCHANGED codex_try
               ELSE CodexNext(model_name, outcome.kind,
                              IF outcome.kind = "ok"
                              THEN <<"codex_empty_response", model_name, codex_try.attempt>>
                              ELSE <<"combined", run_no>>)
    /\ UNCHANGED <<codex_model, NotCodex>>

NextCodex ==
    \/ CodexStart
    \/ CodexRun

SpecCodex == InitCodex /\ [][NextCodex]_vars

\* ------------------------------------------------------------------------
\* C26
\* ------------------------------------------------------------------------
\* The runs made with a model.
RunsWith(m) ==
    LET With(r) == r.model = m
    IN SelectSeq(codex_runs, With)

Succeeded(r) == r.kind = "ok" /\ r.output_text # 0

\* At most two attempts per model, the configured model before gpt-5, and
\* gpt-5 only after every attempt with the configured model failed.
CandidateOrder ==
    /\ \A m \in CodexModels : Len(RunsWith(m)) <= 2
    /\ \A i \in 1..Len(codex_runs) :
           /\ codex_runs[i].model \in {codex_model, "gpt-5"}
           /\ codex_runs[i].model # ""
           /\ \A j \in 1..(i - 1) :
                  /\ ~Succeeded(codex_runs[j])
                  /\ codex_runs[j].model = "gpt-5" => codex_runs[i].model = "gpt-5"

\* The call returned the output of the first attempt that exited 0 with a
\* non-empty output.
ReturnsFirstSuccess ==
    codex_pc = "returned" =>
        /\ Succeeded(codex_runs[Len(codex_runs)])
        /\ codex_result = [kind |-> "return",
                           value |-> codex_runs[Len(codex_runs)].output_text]

\* Every candidate had its attempts: two, or one that ended with the
\* unsupported hint for a model other than gpt-5.
Exhausted ==
    \A k \in 1..Len(codex_try.models) :
        LET rs == RunsWith(codex_try.models[k])
        IN /\ rs # <<>>
           /\ \/ Len(rs) = 2
              \/ rs[Len(rs)].kind = "unsupported" /\ codex_try.models[k] # "gpt-5"

\* C26 as stated: a codex call makes at most two attempts per candidate
\* model, the configured model first and gpt-5 after it failed, returns the
\* output of the first attempt that exits 0 with non-empty output, and
\* raises only after all candidates are exhausted; a failed attempt of any
\* kind (non-zero exit, empty output, per-call timeout) is followed by the
\* next attempt or the fallback model.
C26_AsStated ==
    /\ CandidateOrder
    /\ ReturnsFirstSuccess
    /\ codex_pc = "raised" => Exhausted

\* What holds: the attempts and their order, the returned output, and that
\* a call in which no attempt timed out raises only after all candidates
\* are exhausted, with RuntimeError(last_error).
C26_WithoutTimeout ==
    /\ CandidateOrder
    /\ ReturnsFirstSuccess
    /\ codex_pc = "raised" =>
           \/ /\ codex_result.kind = "TimeoutExpired"
              /\ codex_runs[Len(codex_runs)].kind = "timeout"
           \/ /\ codex_result.kind = "RuntimeError"
              /\ \A i \in 1..Len(codex_runs) : codex_runs[i].kind # "timeout"
              /\ Exhausted

\* The first attempt with the configured model timed out and the call was
\* left with TimeoutExpired, gpt-5 untried.
C26_TimeoutLeavesCall ==
    /\ codex_pc = "raised"
    /\ codex_model = "gpt-5-codex-mini"
    /\ Len(codex_runs) = 1
    /\ codex_runs[1].kind = "timeout"
    /\ codex_result.kind = "TimeoutExpired"

\* ------------------------------------------------------------------------
\* The score loop (enrich_event_scores.py: load_previous_score_index,
\* resolve_previous_score_row, main lines 648-830)
\* ------------------------------------------------------------------------
\* Canonical ids and event names are integers that stand for their rank in
\* string order: names 1 "Sumida Hanabi", 2 "Tama Matsuri", 3 "tama-matsuri".
MaxScoreRows == 2

\* generated_at of a row written by this run; rows of earlier runs carry
\* smaller values.
ScoreNow == 9

\* normalize_name_for_match: lower case, white space and punctuation
\* removed; 0 stands for the empty key.
normalize_name_for_match(name) ==
    CASE name = 1 -> 1
      [] name = 2 -> 2
      [] name = 3 -> 2
      [] OTHER -> 0

\* build_name_date_key(event_name, event_date_start): "" (here <<>>) without
\* a name key.
build_name_date_key(event_name, event_date_start) ==
    IF normalize_name_for_match(event_name) = 0 THEN <<>>
    ELSE <<normalize_name_for_match(event_name), event_date_start>>

\* A fused row; description is that of its content record.
FusedRow(canonical_id, event_name, urls, description) ==
    [canonical_id |-> canonical_id, event_name |-> event_name,
     event_date_start |-> "2026-08-01", source_urls |-> urls,
     description |-> description]

\* build_model_input(row, content_row, category): the fields that differ
\* between the rows at hand.
build_model_input(row) ==
    [event_name |-> row.event_name, event_date_start |-> row.event_date_start,
     description_jp |-> row.description, source_urls |-> row.source_urls]

\* input_hash(payload): the SHA-256 of the payload's JSON.
input_hash(payload) == Sha256(payload)

\* A score record.
ScoreRow(canonical_id, event_name, urls, status, hash, generated_at) ==
    [canonical_id |-> canonical_id, event_name |-> event_name,
     event_date_start |-> "2026-08-01", source_urls |-> urls,
     status |-> status, score_source |-> IF status \in {"ok", "cached_ok"} THEN "ai"
                                         ELSE "fallback",
     input_hash |-> hash, generated_at |-> generated_at]

\* The shapes of the events: name and source URLs.
ScoreShapes == {<<1, <<"u1">>>>, <<2, <<"u2">>>>, <<2, <<>>>>}

PrevShapes == {<<1, <<"u1">>>>, <<3, <<"u2">>>>}

\* The fused rows of the run: canonical ids by position.
ScoreFusedLists ==
    UNION {{[i \in 1..n |-> FusedRow(i, f[i][1], f[i][2], "new text")] :
              f \in [1..n -> ScoreShapes]} : n \in 1..MaxScoreRows}

\* The rows of earlier runs: each was written for an event of one of the
\* shapes under a canonical id of that run, with the description of today
\* or an older one.
PrevRowKinds ==
    {[shape |-> s, canonical_id |-> c, status |-> st, description |-> d] :
        s \in PrevShapes, c \in 1..2,
        st \in {"ok", "cached_ok", "fallback_ai_error"}, d \in {"new text", "old text"}}

PrevRowOf(k, generated_at) ==
    ScoreRow(k.canonical_id, k.shape[1], k.shape[2], k.status,
             input_hash(build_model_input(
                 FusedRow(k.canonical_id, k.shape[1], k.shape[2], k.description))),
             generated_at)

ScorePrevLists ==
    UNION {{[i \in 1..n |-> PrevRowOf(f[i], i)] : f \in [1..n -> PrevRowKinds]} :
              n \in 0..MaxScoreRows}

\* score_score_row(row): (rank, generated_at)
score_score_row(row) ==
    LET rank == IF row.status = "ok" /\ row.score_source = "ai" THEN 4
                ELSE IF row.status = "ok" THEN 3
                ELSE IF row.status \in {"cached", "cached_ok"} THEN 2
                ELSE 1
    IN <<rank, row.generated_at>>

\* The keys a row is filed under in a bucket of the index.
IndexKeys(row, bucket) ==
    CASE bucket = "by_canonical" -> {<<row.canonical_id>>}
      [] bucket = "by_source_url" -> {<<row.source_urls[i]>> : i \in 1..Len(row.source_urls)}
      [] bucket = "by_name_date" ->
             {build_name_date_key(row.event_name, row.event_date_start)} \ {<<>>}

RECURSIVE load_bucket(_, _, _, _, _)
\* load_previous_score_index with _put_score_if_better: the position in
\* prev of the row kept under a key of a bucket (0: none); a later row
\* replaces the kept one when its score is not smaller.
load_bucket(prev, i, bucket, key, kept) ==
    IF i > Len(prev) THEN kept
    ELSE IF key \in IndexKeys(prev[i], bucket)
            /\ (kept = 0 \/ ~KeyLess(score_score_row(prev[i]), score_score_row(prev[kept])))
    THEN load_bucket(prev, i + 1, bucket, key, i)
    ELSE load_bucket(prev, i + 1, bucket, key, kept)

index_get(prev, bucket, key) == load_bucket(prev, 1, bucket, key, 0)

\* source_url_set(row); neither kind of row has a description_source_url.
source_url_set(row) == {row.source_urls[i] : i \in 1..Len(row.source_urls)}

\* rows_look_same_event(base_row, candidate_row)
rows_look_same_event(base_row, candidate_row) ==
    \/ source_url_set(base_row) \cap source_url_set(candidate_row) # {}
    \/ /\ build_name_date_key(base_row.event_name, base_row.event_date_start) # <<>>
       /\ build_name_date_key(base_row.event_name, base_row.event_date_start)
              = build_name_date_key(candidate_row.event_name,
                                    candidate_row.event_date_start)

RECURSIVE UrlCandidates(_, _, _, _)
\* Lines 515-524: the rows matched through the row's source URLs.
UrlCandidates(row, prev, i, candidates) ==
    IF i > Len(row.source_urls) THEN candidates
    ELSE LET matched == index_get(prev, "by_source_url", <<row.source_urls[i]>>)
         IN IF matched = 0
               \/ (\E k \in 1..Len(candidates) : candidates[k] = matched)
               \/ ~rows_look_same_event(row, prev[matched])
            THEN UrlCandidates(row, prev, i + 1, candidates)
            ELSE UrlCandidates(row, prev, i + 1, Append(candidates, matched))

\* The candidates of resolve_previous_score_row, in the order they are
\* appended: by canonical_id, by source URL, by name and date.
Candidates(row, prev) ==
    LET c == index_get(prev, "by_canonical", <<row.canonical_id>>)
        first == IF c # 0 /\ rows_look_same_event(row, prev[c]) THEN <<c>> ELSE <<>>
        second == UrlCandidates(row, prev, 1, first)
        key == build_name_date_key(row.event_name, row.event_date_start)
        m == IF key = <<>> THEN 0 ELSE index_get(prev, "by_name_date", key)
    IN IF m # 0 /\ (\A k \in 1..Len(second) : second[k] # m)
          /\ rows_look_same_event(row, prev[m])
       THEN Append(second, m)
       ELSE second

\* resolve_previous_score_row(row, index): the position in prev of the
\* candidate of greatest score, the first of them on a tie (0: None).
resolve_previous_score_row(row, prev) ==
    LET cs == Candidates(row, prev)
    IN IF cs = <<>> THEN 0
       ELSE cs[CHOOSE k \in 1..Len(cs) :
                   /\ \A j \in 1..Len(cs) :
                          ~KeyLess(score_score_row(prev[cs[k]]), score_score_row(prev[cs[j]]))
                   /\ \A j \in 1..(k - 1) :
                          KeyLess(score_score_row(prev[cs[j]]), score_score_row(prev[cs[k]]))]

\* A variant that reuses every previous row of status ok or cached_ok.
reused_ignoring_hash(prev_row, current_hash, failed_only) ==
    prev_row.status \in {"ok", "cached_ok"}

\* Lines 706-716: reused.
reused_by(prev_row, current_hash, failed_only) ==
    IF prev_row.status = "ok"
    THEN failed_only \/ prev_row.input_hash = current_hash
    ELSE IF prev_row.status \in {"cached", "cached_ok"}
    THEN prev_row.input_hash = current_hash
    ELSE FALSE

\* A variant that gives a reused row the canonical_id and names of the
\* fused row.
reused_row_rekeyed(prev_row, row) ==
    [prev_row EXCEPT !.status = "cached_ok", !.generated_at = ScoreNow,
                     !.canonical_id = row.canonical_id, !.event_name = row.event_name,
                     !.source_urls = row.source_urls]

\* Lines 718-721: reused_row = dict(prev_row) with status and generated_at
\* replaced.
reused_row(prev_row, row) ==
    [prev_row EXCEPT !.status = "cached_ok", !.generated_at = ScoreNow]

ScoreConfigs ==
    {[failed_only |-> fo, max_events |-> me, analyzer |-> an] :
        fo \in BOOLEAN, me \in {0, 1}, an \in BOOLEAN}

InitScore ==
    /\ FusionIdle
    /\ VoteIdle
    /\ ContentIdle
    /\ StageIdle
    /\ ExportIdle
    /\ GeohashIdle
    /\ NetworkIdle
    /\ CodexIdle
    /\ ImagesIdle
    /\ score_pc = "load"
    /\ score_cfg \in ScoreConfigs
    /\ score_fused \in ScoreFusedLists
    /\ score_prev \in ScorePrevLists
    /\ loop_items = <<>>
    /\ item_i = 1
    /\ score_out = <<>>
    /\ api_calls = 0
    /\ limiter_waits = <<>>

\* Lines 652-667: an item per fused row, in order of start distance and
\* event name (all rows start on the same day).
ScoreBuildItems ==
    /\ score_pc = "load"
    /\ loop_items' = Unkeyed(SortByKey(
           [i \in 1..Len(score_fused) |->
               [key |-> <<0, 0, score_fused[i].event_name>>,
                row |-> [row |-> score_fused[i],
                         prev_row |-> resolve_previous_score_row(score_fused[i], score_prev),
                         sig |-> input_hash(build_model_input(score_fused[i]))]]]))
    /\ score_pc' = "loop"
    /\ UNCHANGED <<score_cfg, score_fused, score_prev, item_i, score_out, api_calls,
                   limiter_waits, NotScore>>

\* Lines 699-824: one pass of the item loop.
ScoreLoopItem ==
    /\ score_pc = "loop"
    /\ item_i <= Len(loop_items)
    /\ LET it == loop_items[item_i]
           row == it.row
           fresh(status) == ScoreRow(row.canonical_id, row.event_name, row.source_urls,
                                     status, it.sig, ScoreNow)
       IN IF it.prev_row # 0
             /\ reused_by(score_prev[it.prev_row], it.sig, score_cfg.failed_only)
          THEN /\ score_out' = Append(score_out, reused_row(score_prev[it.prev_row], row))
               /\ UNCHANGED <<api_calls, limiter_waits>>
          ELSE IF score_cfg.max_events > 0 /\ api_calls >= score_cfg.max_events
          THEN /\ score_out' = Append(score_out, fresh("fallback_max_events"))
               /\ UNCHANGED <<api_calls, limiter_waits>>
          ELSE IF ~score_cfg.analyzer
          THEN /\ score_out' = Append(score_out, fresh("fallback_no_api_key"))
               /\ UNCHANGED <<api_calls, limiter_waits>>
          ELSE /\ limiter_waits' = Append(limiter_waits, item_i)
               /\ api_calls' = api_calls + 1
               /\ \E status \in {"ok", "fallback_ai_error"} :
                    score_out' = Append(score_out, fresh(status))
    /\ item_i' = item_i + 1
    /\ UNCHANGED <<score_pc, score_cfg, score_fused, score_prev, loop_items, NotScore>>

\* Line 830: out_rows.sort by canonical_id and event name; the rows are
\* written next.
ScoreSortOut ==
    /\ score_pc = "loop"
    /\ item_i > Len(loop_items)
    /\ score_out' = sort_out_rows(score_out)
    /\ score_pc' = "sorted"
    /\ UNCHANGED <<score_cfg, score_fused, score_prev, loop_items, item_i, api_calls,
                   limiter_waits, NotScore>>

NextScore ==
    \/ ScoreBuildItems
    \/ ScoreLoopItem
    \/ ScoreSortOut

SpecScore == InitScore /\ [][NextScore]_vars

\* ------------------------------------------------------------------------
\* C24, C27: reuse of previous score records
\* ------------------------------------------------------------------------
\* While the loop runs, out_rows[k] is the record of items[k].
ScoreLooping == score_pc = "loop"

Processed == IF ScoreLooping THEN 1..(item_i - 1) ELSE {}

PrevOf(k) == score_prev[loop_items[k].prev_row]

HasPrev(k) == loop_items[k].prev_row # 0

\* Only a reused record carries the status cached_ok.
Reused(k) == score_out[k].status = "cached_ok"

HashMatches(k) == PrevOf(k).input_hash = loop_items[k].sig

\* C24: a resolved previous record is reused exactly when its status is ok
\* and failed_only is set, or its status is ok or cached_* and its
\* input_hash equals the hash of the current model input; a reused row makes
\* no API call and no limiter wait; a row whose previous record has a
\* fallback_* status gets a record computed by this run.
C24_ReuseRule ==
    /\ \A k \in Processed :
         /\ Reused(k) <=>
              /\ HasPrev(k)
              /\ \/ PrevOf(k).status = "ok" /\ score_cfg.failed_only
                 \/ PrevOf(k).status \in {"ok", "cached_ok"} /\ HashMatches(k)
         /\ Reused(k) => \A w \in 1..Len(limiter_waits) : limiter_waits[w] # k
         /\ (HasPrev(k) /\ PrevOf(k).status = "fallback_ai_error") =>
              /\ ~Reused(k)
              /\ score_out[k].generated_at = ScoreNow
              /\ score_out[k].input_hash = loop_items[k].sig
    /\ ScoreLooping =>
         /\ api_calls = Len(limiter_waits)
         /\ api_calls = Cardinality({k \in Processed :
                            score_out[k].status \in {"ok", "fallback_ai_error"}})

\* A row is reused under failed_only although its input changed, a second
\* one has a failed previous record and is sent to the API.
C24_Witness ==
    /\ ScoreLooping
    /\ item_i = 3
    /\ score_cfg.failed_only
    /\ Reused(1) /\ PrevOf(1).status = "ok" /\ ~HashMatches(1)
    /\ HasPrev(2) /\ PrevOf(2).status = "fallback_ai_error"
    /\ limiter_waits = <<2>>
    /\ api_calls = 1

\* A cached record whose hash matches is reused, one whose hash differs is
\* not.
C24_WitnessCached ==
    /\ ScoreLooping
    /\ item_i = 3
    /\ ~score_cfg.failed_only
    /\ Reused(1) /\ PrevOf(1).status = "cached_ok" /\ HashMatches(1)
    /\ HasPrev(2) /\ PrevOf(2).status = "cached_ok" /\ ~HashMatches(2) /\ ~Reused(2)

\* C27: one score record per fused row, under the canonical_id of the fused
\* row it was produced for, also when it is reused from a record matched
\* through a source URL or the name and date; no two records of the run
\* share a canonical_id.
C27_AsStated ==
    /\ \A k \in Processed : score_out[k].canonical_id = loop_items[k].row.canonical_id
    /\ score_pc = "sorted" =>
         /\ Len(score_out) = Len(score_fused)
         /\ \A a, b \in 1..Len(score_out) :
              score_out[a].canonical_id = score_out[b].canonical_id => a = b

\* One record per fused row.
C27_OneRecordPerRow ==
    /\ ScoreLooping => Len(score_out) = item_i - 1
    /\ score_pc = "sorted" => Len(score_out) = Len(score_fused)

\* A reused record carries the canonical_id of the previous run's row.
C27_ReusedKeepsPreviousId ==
    \A k \in Processed :
        score_out[k].canonical_id =
            IF Reused(k) THEN PrevOf(k).canonical_id ELSE loop_items[k].row.canonical_id

\* Two records of the sorted output share a canonical_id.
C27_DuplicateId ==
    /\ score_pc = "sorted"
    /\ Len(score_out) = 2
    /\ score_out[1].canonical_id = score_out[2].canonical_id

\* ------------------------------------------------------------------------
\* Images of an event: download_images and the record's image fields
\* (enrich_event_content.py), build_entry and the packing of the local file
\* (export_ios_seed.py)
\* ------------------------------------------------------------------------
MaxImages == 3

HeaderUrl == "https://example.jp/img/header.jpg"

ImageUrlPool == {"https://example.jp/photo/p1.jpg", "https://example.jp/photo/p2.jpg", HeaderUrl}

\* Path(urlparse(url).path).stem, sanitized.
Stem(url) ==
    CASE url = "https://example.jp/photo/p1.jpg" -> "p1"
      [] url = "https://example.jp/photo/p2.jpg" -> "p2"
      [] url = HeaderUrl -> "header"

\* hashlib.sha1(url.encode("utf-8")).hexdigest()
Sha1(bytes) == [sha1_of |-> bytes]

\* Lines 1515-1518 of download_images: the file written for the idx-th URL,
\* named by idx, the stem and the digest of the URL.
ImageFile(idx, url) == [idx |-> idx, stem |-> Stem(url), digest |-> Sha1(url)]

\* Lines 1498-1520: a request that raised, a status other than 200, a
\* content type that is no image, an empty or too large body are skipped;
\* a saved file is appended.
append_saved(saved, outcome, idx, url) ==
    IF outcome = "saved" THEN Append(saved, ImageFile(idx, url)) ELSE saved

DownloadOutcomes == {"saved", "http_404", "not_image"}

\* is_generic_image_url (export_ios_seed.py) of a remote URL.
is_generic_image_url(url) == url = HeaderUrl

\* is_generic_image_url of the relative path of a downloaded file: the
\* fingerprint is looked for in the file name; no file name ends with
\* /img/header.jpg.
is_generic_image_path(rel) == rel.stem = "banner1_069a0e3420"

\* Sequences of distinct URLs (collect_image_urls dedupes and stops at
\* max_images).
ImageUrlLists ==
    {u \in UNION {[1..n -> ImageUrlPool] : n \in 0..MaxImages} :
        \A a, b \in 1..Len(u) : u[a] = u[b] => a = b}

NoImage == [idx |-> 0]

InitImages ==
    /\ FusionIdle
    /\ VoteIdle
    /\ ContentIdle
    /\ StageIdle
    /\ ExportIdle
    /\ GeohashIdle
    /\ NetworkIdle
    /\ CodexIdle
    /\ ScoreIdle
    /\ img_pc = "download"
    /\ img_cfg \in {[download_images |-> d, max_images |-> m] : d \in BOOLEAN, m \in 1..MaxImages}
    /\ img_urls \in {u \in ImageUrlLists : Len(u) <= img_cfg.max_images}
    /\ img_idx = 1
    /\ downloaded = <<>>
    /\ img_record = <<>>
    /\ img_entry = <<>>

\* The URLs the download loop goes through: none without --download-images,
\* else image_urls[:max_images].
ToDownload ==
    IF img_cfg.download_images THEN Min(Len(img_urls), img_cfg.max_images) ELSE 0

\* download_images: one pass of the loop.
ImagesDownload ==
    /\ img_pc = "download"
    /\ img_idx <= ToDownload
    /\ \E outcome \in DownloadOutcomes :
         downloaded' = append_saved(downloaded, outcome, img_idx, img_urls[img_idx])
    /\ img_idx' = img_idx + 1
    /\ UNCHANGED <<img_pc, img_cfg, img_urls, img_record, img_entry, NotImages>>

\* run_project lines 2064, 2087-2088: the record's image fields.
ImagesRecord ==
    /\ img_pc = "download"
    /\ img_idx > ToDownload
    /\ img_record' = [image_urls |-> img_urls, downloaded_images |-> downloaded]
    /\ img_pc' = "recorded"
    /\ UNCHANGED <<img_cfg, img_urls, img_idx, downloaded, img_entry, NotImages>>

\* The positions of the URLs that are not generic, in order.
non_generic_indices(urls) ==
    SelectSeq([i \in 1..Len(urls) |-> i], LAMBDA i : ~is_generic_image_url(urls[i]))

\* build_entry lines 659-692: content_image_source_url and the local file
\* of the entry; the files of the record exist.
ImagesBuildEntry ==
    /\ img_pc = "recorded"
    /\ LET content_image_urls == img_record.image_urls
           downloaded_images == img_record.downloaded_images
           idxs == non_generic_indices(content_image_urls)
           picked == SelectSeq(idxs, LAMBDA i : /\ i <= Len(downloaded_images)
                                                /\ ~is_generic_image_path(downloaded_images[i]))
           candidate_rel_paths ==
               IF idxs # <<>> /\ downloaded_images # <<>>
               THEN [k \in 1..Len(picked) |-> downloaded_images[picked[k]]]
               ELSE IF content_image_urls = <<>>
               THEN SelectSeq(downloaded_images, LAMBDA rel : ~is_generic_image_path(rel))
               ELSE <<>>
       IN img_entry' =
              [content_image_source_url |->
                   IF idxs # <<>> THEN content_image_urls[idxs[1]] ELSE "",
               image_local |->
                   IF candidate_rel_paths # <<>> THEN candidate_rel_paths[1] ELSE NoImage,
               image_payload |-> NoImage]
    /\ img_pc' = "entry"
    /\ UNCHANGED <<img_cfg, img_urls, img_idx, downloaded, img_record, NotImages>>

\* Lines 839-876: the local file is compressed and packed, or the entry
\* stays without an image reference.
ImagesPack ==
    /\ img_pc = "entry"
    /\ \E compressed \in BOOLEAN :
         img_entry' = [img_entry EXCEPT !.image_payload =
                          IF img_entry.image_local # NoImage /\ compressed
                          THEN img_entry.image_local ELSE NoImage]
    /\ img_pc' = "packed"
    /\ UNCHANGED <<img_cfg, img_urls, img_idx, downloaded, img_record, NotImages>>

NextImages ==
    \/ ImagesDownload
    \/ ImagesRecord
    \/ ImagesBuildEntry
    \/ ImagesPack

SpecImages == InitImages /\ [][NextImages]_vars

\* C28: the file packed for an entry is the download of the URL the entry
\* reports as content_image_source_url; position i of a record's
\* downloaded_images holds the download of position i of its image_urls.
C28_AsStated ==
    /\ img_pc \in {"recorded", "entry", "packed"} =>
         \A i \in 1..Len(img_record.downloaded_images) :
             /\ i <= Len(img_record.image_urls)
             /\ img_record.downloaded_images[i].digest = Sha1(img_record.image_urls[i])
    /\ (img_pc = "packed" /\ img_entry.image_payload # NoImage) =>
         img_entry.image_payload.digest = Sha1(img_entry.content_image_source_url)

\* The idx in a file's name is the position of its URL in image_urls, and
\* the files keep the order of their URLs.
C28_FileNamesItsUrl ==
    img_pc \in {"recorded", "entry", "packed"} =>
        /\ \A i \in 1..Len(img_record.downloaded_images) :
             LET rel == img_record.downloaded_images[i]
             IN /\ rel.idx \in i..Len(img_record.image_urls)
                /\ rel.digest = Sha1(img_record.image_urls[rel.idx])
        /\ \A i, j \in 1..Len(img_record.downloaded_images) :
             i < j => img_record.downloaded_images[i].idx < img_record.downloaded_images[j].idx

\* When every download of the record was saved, the positions agree and the
\* packed file is the download of the reported URL.
C28_AlignedWhenAllSaved ==
    (/\ img_pc = "packed"
     /\ Len(img_record.downloaded_images) = Len(img_record.image_urls)
     /\ img_entry.image_payload # NoImage) =>
        img_entry.image_payload.digest = Sha1(img_entry.content_image_source_url)

\* The first download failed, the second was saved, and the entry packs the
\* second file under the first URL.
C28_Misaligned ==
    /\ img_pc = "packed"
    /\ Len(img_record.image_urls) = 2
    /\ Len(img_record.downloaded_images) = 1
    /\ img_record.downloaded_images[1].idx = 2
    /\ img_entry.content_image_source_url = img_record.image_urls[1]
    /\ img_entry.image_payload = img_record.downloaded_images[1]

\* ------------------------------------------------------------------------
\* C29: what overlap repair changes
\* ------------------------------------------------------------------------
InRepair == pc \in {"repair_row", "repair_query"}

\* The rows of before_repair at the rounded point of row i.
SharingPoint(i) ==
    {j \in 1..Len(before_repair) :
        /\ ToCoord(before_repair[j].lat) # NoCoord
        /\ ToCoord(before_repair[j].lng) # NoCoord
        /\ Round6(ToCoord(before_repair[j].lat)) = Round6(ToCoord(before_repair[i].lat))
        /\ Round6(ToCoord(before_repair[j].lng)) = Round6(ToCoord(before_repair[i].lng))}

\* Row i is rewritten by the step.
Rewritten(i) == fused_rows'[i] # fused_rows[i]

\* The point of the new row is more than 1e-6 away from the point of the
\* old row in an axis.
MovedBeyondEpsilon(i) ==
    \/ Abs(ToCoord(fused_rows'[i].lat) - ToCoord(fused_rows[i].lat)) > COORD_EPSILON
    \/ Abs(ToCoord(fused_rows'[i].lng) - ToCoord(fused_rows[i].lng)) > COORD_EPSILON

\* Number, order, canonical_ids and the fields other than lat, lng and
\* geo_source stay; a source_exact row and a row alone at its rounded point
\* stay; a row is rewritten once at most.
RepairKeepsTheRest ==
    InRepair =>
        /\ Len(fused_rows') = Len(fused_rows)
        /\ \A i \in 1..Len(fused_rows) :
             /\ [fused_rows'[i] EXCEPT !.lat = fused_rows[i].lat, !.lng = fused_rows[i].lng,
                                       !.geo_source = fused_rows[i].geo_source] = fused_rows[i]
             /\ Rewritten(i) =>
                  /\ fused_rows[i] = before_repair[i]
                  /\ fused_rows[i].geo_source # GS("source_exact")
                  /\ Cardinality(SharingPoint(i)) >= 2

\* C29 as stated: in addition, a rewrite moves the row by more than 1e-6
\* in at least one axis from its old point.
C29_AsStated ==
    [][RepairKeepsTheRest
       /\ (InRepair => \A i \in 1..Len(fused_rows) : Rewritten(i) => MovedBeyondEpsilon(i))]_vars

\* C29 amended: the new point is more than 1e-6 away in an axis from the
\* old point rounded to 6 decimals.
C29_Amended ==
    [][RepairKeepsTheRest
       /\ (InRepair =>
             \A i \in 1..Len(fused_rows) :
                 Rewritten(i) =>
                     \/ Abs(ToCoord(fused_rows'[i].lat) - Round6(ToCoord(fused_rows[i].lat)))
                            > COORD_EPSILON
                     \/ Abs(ToCoord(fused_rows'[i].lng) - Round6(ToCoord(fused_rows[i].lng)))
                            > COORD_EPSILON)]_vars

\* Two rows were repaired, one of them by a cached answer.
C29_Witness ==
    /\ Done
    /\ Cardinality({i \in FusedIdx : fused_rows[i] # before_repair[i]}) = 2
    /\ \E i \in FusedIdx : fused_rows[i].geo_source # before_repair[i].geo_source
                           /\ fused_rows[i].lat # before_repair[i].lat

\* A row was moved by less than 1e-6.
C29_SmallMove ==
    /\ Done
    /\ \E i \in FusedIdx :
         /\ fused_rows[i] # before_repair[i]
         /\ Abs(ToCoord(fused_rows[i].lat) - ToCoord(before_repair[i].lat)) <= COORD_EPSILON
         /\ Abs(ToCoord(fused_rows[i].lng) - ToCoord(before_repair[i].lng)) <= COORD_EPSILON

\* ------------------------------------------------------------------------
\* C30: member rows, source_count and the dedup log
\* ------------------------------------------------------------------------
\* The rows _load_rows returned, before the year filter replaced them.
RawRows == _load_rows(files).rows

input_rows_raw == Len(RawRows)

input_rows_after_year_filter == Len(rows)

\* The raw rows whose year is not the target year.
YearDropped ==
    {k \in 1..Len(RawRows) : Annotate(RawRows[k])["_event_year"].s # target_year_str}

\* The group loop is over.
Fused == pc \in {"repair", "repair_row", "repair_query", "write", "done"}

\* How often row r occurs in a sequence of rows.
RowCount(r, rs) == Cardinality({k \in 1..Len(rs) : rs[k] = r})

DedupOf(i) ==
    SelectSeq(dedup_entries, LAMBDA e : e.canonical_id = fused_rows[i].canonical_id)

\* C30: every row that passes the year filter is a member of exactly one
\* canonical event; source_count is the number of member rows; the
\* source_counts sum to input_rows_after_year_filter, which is
\* input_rows_raw less the rows the year filter dropped; the dedup log has
\* one row per member row and one row of action canonical per canonical_id.
C30_MembersCounted ==
    Fused =>
        /\ Len(fused_rows) = Len(groups)
        /\ \A k \in 1..Len(rows) :
             /\ Cardinality({i \in 1..Len(groups) : rows[k] \in Members(i)}) = 1
             /\ RowCount(rows[k], rows)
                    = SumFn([i \in 1..Len(groups) |-> RowCount(rows[k], groups[i].members)])
        /\ \A i \in FusedIdx :
             /\ fused_rows[i].source_count = Len(groups[i].members)
             /\ Len(DedupOf(i)) = fused_rows[i].source_count
             /\ Cardinality({k \in 1..Len(DedupOf(i)) : DedupOf(i)[k].action = "canonical"}) = 1
             /\ \A j \in FusedIdx :
                  fused_rows[i].canonical_id = fused_rows[j].canonical_id => i = j
        /\ SumFn([i \in FusedIdx |-> fused_rows[i].source_count]) = input_rows_after_year_filter
        /\ input_rows_after_year_filter = input_rows_raw - Cardinality(YearDropped)
        /\ Len(dedup_entries) = input_rows_after_year_filter

\* Two rows merged into one event of source_count 2.
C30_Witness ==
    /\ Done
    /\ Len(fused_rows) = 1
    /\ fused_rows[1].source_count = 2
    /\ Len(dedup_entries) = 2
    /\ dedup_entries[2].action = "merged"

\* A row was dropped by the year filter, the other one became an event.
C30_WitnessYearDropped ==
    /\ Done
    /\ input_rows_raw = 2
    /\ Cardinality(YearDropped) = 1
    /\ Len(fused_rows) = 1
    /\ fused_rows[1].source_count = 1

====
